---- MODULE Spec2Model ----
(***************************************************************************)
(* Model of the rule sync service (sync-service/src/index.ts): the single  *)
(* flight guard of POST /api/sync, the run performed by performSync with   *)
(* its batches of concurrent per-file workers, the document store and the  *)
(* persisted checkpoint.                                                   *)
(*                                                                         *)
(* Node runs every handler and every continuation of an await to its next  *)
(* await without interleaving, so one action is one such stretch of code.  *)
(* Each awaited remote call is answered by the environment, successfully   *)
(* or with a failure; both answers are actions.                            *)
(***************************************************************************)
EXTENDS Integers, Sequences, FiniteSets, TLC

\* ---------------------------------------------------------------- bounds
MaxFiles == 6      \* most files a repository of the model holds
MaxRuns == 2       \* most runs started by one process of the model
NumNames == 4      \* distinct file stems; files beyond it repeat a stem
MaxFaults == 1     \* most per-file call failures the environment injects

\* ------------------------------------------------------ program constants
batchSize == 5

NULL == [null |-> TRUE]

Min(a, b) == IF a < b THEN a ELSE b

\* ------------------------------------------------------------ environment
\* A repository file as getAllRuleFiles returns it: its name (the stem that
\* becomes the rule id) and whether parseDetectionRule accepts its content.
\* Files in different directories may carry the same name.
FileOf(i, rejectEvery) ==
  [name |-> ((i - 1) % NumNames) + 1,
   valid |-> IF rejectEvery = 0 THEN TRUE ELSE i % rejectEvery # 0]

RepoOf(n, rejectEvery) == [i \in 1..n |-> FileOf(i, rejectEvery)]

\* rejectEvery = 1: the parser rejects every file; 2: every second file.
RejectStrides == {1, 2}

Repos == {RepoOf(n, r) : n \in 0..MaxFiles, r \in RejectStrides}

VARIABLES
  esClient,        \* TRUE iff the Elasticsearch client was configured
  repo,            \* the remote rule files (unchanged during the model)
  currentSync,     \* SyncStats of the active run, or NULL
  lastSyncResult,  \* snapshot of the SyncStats of the last ended run, or NULL
  checkpoint,      \* document 'current-state' of the sync state index, or NULL
  store,           \* ids of the documents of the rules index
  pc,              \* the await performSync is suspended at, or "idle"
  ruleFiles,       \* performSync: the enumerated files
  i,               \* performSync: offset of the current batch
  stage,           \* per enumerated file, the await its worker is suspended at
  runs,            \* performSync calls made so far (also the model's clock)
  outcome,         \* how the promise of the last performSync call settled
  response,        \* the answer to the last POST /api/sync
  faults,          \* per-file call failures injected so far
  obs,             \* events of the active run, observed for the properties
  content,         \* worker: the lines of the fetched file
  filename,        \* worker: file.name of the fetched file
  rule,            \* worker: what parseDetectionRule returned, or PENDING
  tree,            \* getAllRuleFiles: the listing of every remote directory
  stack,           \* getAllRuleFiles: the traverseDirectory calls in their loop
  calling,         \* getAllRuleFiles: the path getContent is awaited for
  allFiles,        \* getAllRuleFiles: the files collected so far
  visited,         \* paths getContent was called for, observed
  failed,          \* paths whose getContent failed, observed
  parser,          \* parseDetectionRule: its locals in the line loop, or NULL
  lineNo,          \* parseDetectionRule: the line the loop reads next
  query,           \* extractFieldsFromQuery: the query text
  fields,          \* extractFieldsFromQuery: what it returned
  dateStr,         \* parseTomlDate: the text of the date
  date             \* parseTomlDate: what it returned

\* The variables of the specifications of the parser and of the enumerator;
\* the specification of the run leaves them as they are.
textVars == <<parser, lineNo, query, fields, dateStr, date>>

fnVars == <<content, filename, rule, tree, stack, calling, allFiles, visited,
            failed, textVars>>

vars == <<esClient, repo, currentSync, lastSyncResult, checkpoint, store, pc,
          ruleFiles, i, stage, runs, outcome, response, faults, obs, fnVars>>

\* The variables of the run but the position of performSync.
runVars == <<esClient, repo, currentSync, lastSyncResult, checkpoint, store,
             ruleFiles, i, stage, runs, outcome, response, faults, obs>>

enumVars == <<tree, stack, calling, allFiles, visited, failed>>

\* "fetch": the worker awaits the content and, once it has parsed the content
\* to a rule, the answer of the existence check.  The step from the one
\* await to the other touches nothing but the worker itself, so it is taken
\* together with the answer of the existence check.  "indexNew", "indexUpd":
\* it awaits the upsert with isUpdate false, true.
Stages == {"none", "fetch", "indexNew", "indexUpd", "done"}

\* What the properties observe of the active run: batches dispatched,
\* pacing timers set, whether the refresh answered, what became of the
\* checkpoint write, the failed calls by kind, whether the run before it
\* ended Completed with no error counted, and, until the rules index has
\* answered, whether ensuring the sync state index failed.
NoObs == [batches |-> 0, delays |-> 0, refreshed |-> FALSE, save |-> "none",
          fetchFails |-> 0, getFails |-> 0, indexFails |-> 0,
          prevClean |-> FALSE, stateIndexFailed |-> FALSE]

NewSyncStats ==
  [totalFiles |-> 0, processed |-> 0, indexed |-> 0, updated |-> 0,
   skipped |-> 0, errors |-> 0, startTime |-> runs + 1, endTime |-> 0,
   lastCommitSha |-> 0]

\* No worker of the parser specification has fetched a file.
ParserIdle == content = <<>> /\ filename = <<>> /\ rule = NULL

\* No call of the line loop, of the field extractor or of the date
\* normalization is under way.
TextIdle ==
  /\ parser = NULL /\ lineNo = 0
  /\ query = <<>> /\ fields = <<>>
  /\ dateStr = <<>> /\ date = <<>>

\* The value of calling while no getContent call is awaited.
NoCall == -1

\* No enumeration of the enumerator specification is under way.
EnumIdle ==
  /\ tree = <<>> /\ stack = <<>> /\ calling = NoCall /\ allFiles = <<>>
  /\ visited = {} /\ failed = {}

Init ==
  /\ ParserIdle
  /\ TextIdle
  /\ EnumIdle
  /\ esClient \in BOOLEAN
  /\ repo \in Repos
  /\ currentSync = NULL
  /\ lastSyncResult = NULL
  /\ checkpoint = NULL
  /\ store = {}
  /\ pc = "idle"
  /\ ruleFiles = <<>>
  /\ i = 0
  /\ stage = <<>>
  /\ runs = 0
  /\ outcome = "none"
  /\ response = "none"
  /\ faults = 0
  /\ obs = NoObs

\* ------------------------------------------------------- POST /api/sync
\* Mutant: the handler lacks the guard.
SyncInProgressNever(cs) == FALSE

\* The guard of the handler: a run is active iff the slot is set.
SyncInProgress(cs) == cs # NULL

\* Mutant: the rejected request replaces the statistics of the active run.
StartConflictRestarts ==
  /\ currentSync # NULL
  /\ response' = "conflict"
  /\ currentSync' = [totalFiles |-> 0, processed |-> 0, indexed |-> 0,
                     updated |-> 0, skipped |-> 0, errors |-> 0,
                     startTime |-> runs, endTime |-> 0, lastCommitSha |-> 0]
  /\ UNCHANGED <<fnVars, esClient, faults, repo, lastSyncResult, checkpoint,
                 store, pc, ruleFiles, i, stage, runs, outcome, obs>>

\* A request while a run is active: 409, nothing else happens.
StartConflict ==
  /\ SyncInProgress(currentSync)
  /\ response' = "conflict"
  /\ UNCHANGED <<fnVars, esClient, faults, repo, currentSync, lastSyncResult,
                 checkpoint, store, pc, ruleFiles, i, stage, runs, outcome,
                 obs>>

\* A request while idle with no store client: performSync rejects before it
\* creates the SyncStats; the attached catch handler finds no current run.
\* The request is still answered "started".
StartNotConfigured ==
  /\ ~SyncInProgress(currentSync)
  /\ ~esClient
  /\ runs < MaxRuns
  /\ runs' = runs + 1
  /\ outcome' = "notConfigured"
  /\ response' = "started"
  /\ UNCHANGED <<fnVars, esClient, faults, repo, currentSync, lastSyncResult,
                 checkpoint, store, pc, ruleFiles, i, stage, obs>>

\* Mutant: a new run discards the result of the last one.
StartRunClearsLast ==
  /\ ~SyncInProgress(currentSync)
  /\ esClient
  /\ runs < MaxRuns
  /\ runs' = runs + 1
  /\ currentSync' = NewSyncStats
  /\ pc' = "ensureState"
  /\ outcome' = "pending"
  /\ response' = "started"
  /\ ruleFiles' = <<>>
  /\ i' = 0
  /\ stage' = <<>>
  /\ obs' = [NoObs EXCEPT
              !.prevClean = /\ outcome = "completed"
                            /\ lastSyncResult.errors = 0]
  /\ lastSyncResult' = NULL
  /\ UNCHANGED <<fnVars, esClient, faults, repo, checkpoint, store>>

\* A request while idle: performSync runs to its first await (the exists
\* call of createElasticsearchIndices) and the request is answered.
StartRun ==
  /\ ~SyncInProgress(currentSync)
  /\ esClient
  /\ runs < MaxRuns
  /\ runs' = runs + 1
  /\ currentSync' = NewSyncStats
  /\ pc' = "ensureState"
  /\ outcome' = "pending"
  /\ response' = "started"
  /\ ruleFiles' = <<>>
  /\ i' = 0
  /\ stage' = <<>>
  /\ obs' = [NoObs EXCEPT
              !.prevClean = /\ outcome = "completed"
                            /\ lastSyncResult.errors = 0]
  /\ UNCHANGED <<fnVars, esClient, faults, repo, lastSyncResult, checkpoint,
                 store>>

\* ---------------------------------------------------------- performSync
\* Mutant: no finally, the slot stays set after a fatal error.
FailKeepsSlot(reason) ==
  /\ lastSyncResult' = [currentSync EXCEPT !.endTime = runs]
  /\ currentSync' = currentSync
  /\ pc' = "idle"
  /\ outcome' = reason
  /\ obs' = NoObs

\* Mutant: no finally, the slot is not cleared.
FinallyNone(cs) == cs

\* finally of performSync: the slot of the active run is cleared.
Finally(cs) == NULL

\* The handler the start request attached with catch to the promise of
\* performSync: it counts an error in the run the slot holds, if any.
CatchHandler(cs) ==
  IF cs # NULL THEN [cs EXCEPT !.errors = @ + 1] ELSE cs

\* catch and finally of performSync: snapshot, then clear the slot; the
\* promise rejects with the error and its catch handler runs as the next
\* microtask, before any request is handled.
Fail(reason) ==
  /\ lastSyncResult' = [currentSync EXCEPT !.endTime = runs]
  /\ currentSync' = CatchHandler(Finally(currentSync))
  /\ pc' = "idle"
  /\ outcome' = reason
  /\ obs' = NoObs

\* createElasticsearchIndices, sync state index: present or created.
EnsureStateIndex ==
  /\ pc = "ensureState"
  /\ pc' = "ensureRules"
  /\ UNCHANGED <<fnVars, esClient, faults, repo, currentSync, lastSyncResult,
                 checkpoint, store, ruleFiles, i, stage, runs, outcome,
                 response, obs>>

\* Mutant: the failure of the sync state index is rethrown.
EnsureStateIndexFailThrows ==
  /\ pc = "ensureState"
  /\ Fail("schemaError")
  /\ UNCHANGED <<fnVars, esClient, faults, repo, checkpoint, store, ruleFiles,
                 i, stage, runs, response>>

\* createElasticsearchIndices, sync state index: exists or create fails;
\* the catch logs the error and the function goes on to the rules index.
EnsureStateIndexFail ==
  /\ pc = "ensureState"
  /\ pc' = "ensureRules"
  /\ obs' = [obs EXCEPT !.stateIndexFailed = TRUE]
  /\ UNCHANGED <<fnVars, esClient, faults, repo, currentSync, lastSyncResult,
                 checkpoint, store, ruleFiles, i, stage, runs, outcome,
                 response>>

\* createElasticsearchIndices, rules index: present or created.
EnsureRulesIndexOk ==
  /\ pc = "ensureRules"
  /\ pc' = "getState"
  /\ obs' = [obs EXCEPT !.stateIndexFailed = FALSE]
  /\ UNCHANGED <<fnVars, esClient, faults, repo, currentSync, lastSyncResult,
                 checkpoint, store, ruleFiles, i, stage, runs, outcome,
                 response>>

\* createElasticsearchIndices, rules index: the failure is rethrown.
EnsureRulesIndexFail ==
  /\ pc = "ensureRules"
  /\ Fail("schemaError")
  /\ UNCHANGED <<fnVars, esClient, faults, repo, checkpoint, store, ruleFiles,
                 i, stage, runs, response>>

\* getSyncState: esClient.get answers the checkpoint; the result is unused.
GetSyncState ==
  /\ pc = "getState"
  /\ pc' = "repoGet"
  /\ UNCHANGED <<fnVars, esClient, faults, repo, currentSync, lastSyncResult,
                 checkpoint, store, ruleFiles, i, stage, runs, outcome,
                 response, obs>>

\* Mutant: the failure to load the checkpoint is rethrown.
GetSyncStateFailThrows ==
  /\ pc = "getState"
  /\ Fail("stateError")
  /\ UNCHANGED <<fnVars, esClient, faults, repo, checkpoint, store,
                 ruleFiles, i, stage, runs, response>>

\* getSyncState: esClient.get fails or finds no checkpoint; the catch
\* returns {} and the result is unused.
GetSyncStateFail ==
  /\ pc = "getState"
  /\ pc' = "repoGet"
  /\ UNCHANGED <<fnVars, esClient, faults, repo, currentSync, lastSyncResult,
                 checkpoint, store, ruleFiles, i, stage, runs, outcome,
                 response, obs>>

\* The id repos.get answers to the r-th run.  The code stores and copies
\* the id and never compares two ids, so an answer that differs from run to
\* run loses no behaviour and tells the markers of different runs apart.
RepoId(r) == r

\* repos.get answers: its id becomes the change marker of the run.
RepoGetOk ==
  /\ pc = "repoGet"
  /\ currentSync' = [currentSync EXCEPT !.lastCommitSha = RepoId(runs)]
  /\ pc' = "enumerate"
  /\ UNCHANGED <<fnVars, esClient, faults, repo, lastSyncResult, checkpoint,
                 store, ruleFiles, i, stage, runs, outcome, response, obs>>

RepoGetFail ==
  /\ pc = "repoGet"
  /\ Fail("repoError")
  /\ UNCHANGED <<fnVars, esClient, faults, repo, checkpoint, store, ruleFiles,
                 i, stage, runs, response>>

\* Mutant: every remaining file is dispatched at once.
DispatchAll(st, files, k) ==
  [f \in 1..Len(files) |-> IF k < f THEN "fetch" ELSE st[f]]

\* The workers of the batch at offset k, each run to its fetch.
Dispatch(st, files, k) ==
  [f \in 1..Len(files) |->
     IF k < f /\ f <= k + batchSize THEN "fetch" ELSE st[f]]

\* getAllRuleFiles answered with at least one file: the first batch starts.
\* The listing of the root may fail, in which case no file is returned.
EnumerateFiles ==
  /\ pc = "enumerate"
  /\ Len(repo) > 0
  /\ ruleFiles' = repo
  /\ currentSync' = [currentSync EXCEPT !.totalFiles = Len(repo)]
  /\ i' = 0
  /\ stage' = Dispatch([f \in 1..Len(repo) |-> "none"], repo, 0)
  /\ pc' = "batch"
  /\ obs' = [obs EXCEPT !.batches = 1]
  /\ UNCHANGED <<fnVars, esClient, faults, repo, lastSyncResult, checkpoint,
                 store, runs, outcome, response>>

\* Mutant: no check for zero files, the run goes on to the refresh.
EnumerateNoneContinues ==
  /\ pc = "enumerate"
  /\ ruleFiles' = <<>>
  /\ pc' = "refresh"
  /\ UNCHANGED <<fnVars, esClient, faults, repo, currentSync, lastSyncResult,
                 checkpoint, store, i, stage, runs, outcome, response, obs>>

\* getAllRuleFiles answered with no file: the run is fatal.
EnumerateNone ==
  /\ pc = "enumerate"
  /\ ruleFiles' = <<>>
  /\ Fail("zeroFiles")
  /\ UNCHANGED <<fnVars, esClient, faults, repo, checkpoint, store, i, stage,
                 runs, response>>

\* ------------------------------------------------------ per-file worker
InBatch(f) == f \in 1..Len(ruleFiles) /\ pc = "batch"

\* The files of the batch at offset k: ruleFiles.slice(k, k + batchSize).
Batch(k) == {f \in 1..Len(ruleFiles) : k < f /\ f <= k + batchSize}

\* Mutant: the pacing timer is also set after the last batch.
JoinDelayAlways(st, o) ==
  IF \A f \in Batch(i) : st[f] = "done"
  THEN IF i + batchSize <= Len(ruleFiles)
       THEN /\ pc' = "delay"
            /\ i' = i
            /\ obs' = [o EXCEPT !.delays = @ + 1]
       ELSE /\ pc' = "refresh"
            /\ i' = i + batchSize
            /\ obs' = o
  ELSE /\ pc' = pc
       /\ i' = i
       /\ obs' = o

\* Continuation of Promise.all, run by the step that leaves the workers in
\* stages st and the observations at o: once every worker of the batch is
\* done the loop sets the pacing timer if more files follow, else it leaves
\* the loop and issues the refresh.
Join(st, o) ==
  IF \A f \in Batch(i) : st[f] = "done"
  THEN IF i + batchSize < Len(ruleFiles)
       THEN /\ pc' = "delay"
            /\ i' = i
            /\ obs' = [o EXCEPT !.delays = @ + 1]
       ELSE /\ pc' = "refresh"
            /\ i' = i + batchSize
            /\ obs' = o
  ELSE /\ pc' = pc
       /\ i' = i
       /\ obs' = o

\* Mutant: no per-file catch, the failed fetch rejects Promise.all and the
\* run.
FetchFailAborts(f) ==
  /\ InBatch(f)
  /\ faults < MaxFaults
  /\ faults' = faults + 1
  /\ stage[f] = "fetch"
  /\ Fail("fetchError")
  /\ UNCHANGED <<fnVars, esClient, repo, checkpoint, store, ruleFiles, i,
                 stage, runs, response>>

\* fetch rejects, answers not ok, or text() rejects: outer catch.
FetchFail(f) ==
  /\ InBatch(f)
  /\ faults < MaxFaults
  /\ faults' = faults + 1
  /\ stage[f] = "fetch"
  /\ currentSync' = [currentSync EXCEPT !.errors = @ + 1]
  /\ stage' = [stage EXCEPT ![f] = "done"]
  /\ Join(stage', [obs EXCEPT !.fetchFails = @ + 1])
  /\ UNCHANGED <<fnVars, esClient, repo, lastSyncResult, checkpoint, store,
                 ruleFiles, runs, outcome, response>>

\* Mutant: a rejection by the parser is counted as an error.
FetchSkippedAsError(f) ==
  /\ InBatch(f)
  /\ stage[f] = "fetch"
  /\ ~ruleFiles[f].valid
  /\ currentSync' = [currentSync EXCEPT !.errors = @ + 1,
                                        !.processed = @ + 1]
  /\ stage' = [stage EXCEPT ![f] = "done"]
  /\ Join(stage', obs)
  /\ UNCHANGED <<fnVars, esClient, faults, repo, lastSyncResult, checkpoint,
                 store, ruleFiles, runs, outcome, response>>

\* content fetched and rejected by the parser.
FetchSkipped(f) ==
  /\ InBatch(f)
  /\ stage[f] = "fetch"
  /\ ~ruleFiles[f].valid
  /\ currentSync' = [currentSync EXCEPT !.skipped = @ + 1,
                                        !.processed = @ + 1]
  /\ stage' = [stage EXCEPT ![f] = "done"]
  /\ Join(stage', obs)
  /\ UNCHANGED <<fnVars, esClient, faults, repo, lastSyncResult, checkpoint,
                 store, ruleFiles, runs, outcome, response>>

\* Mutant: isUpdate is not set when the document is found.
GetFoundIgnored(f) ==
  /\ InBatch(f)
  /\ stage[f] = "fetch"
  /\ ruleFiles[f].valid
  /\ ruleFiles[f].name \in store
  /\ stage' = [stage EXCEPT ![f] = "indexNew"]
  /\ UNCHANGED <<fnVars, esClient, faults, repo, currentSync, lastSyncResult,
                 checkpoint, store, pc, ruleFiles, i, runs, outcome, response,
                 obs>>

\* content fetched and parsed to a rule; esClient.get finds the document.
GetFound(f) ==
  /\ InBatch(f)
  /\ stage[f] = "fetch"
  /\ ruleFiles[f].valid
  /\ ruleFiles[f].name \in store
  /\ stage' = [stage EXCEPT ![f] = "indexUpd"]
  /\ UNCHANGED <<fnVars, esClient, faults, repo, currentSync, lastSyncResult,
                 checkpoint, store, pc, ruleFiles, i, runs, outcome, response,
                 obs>>

\* content fetched and parsed to a rule; esClient.get answers 404.
GetNotFound(f) ==
  /\ InBatch(f)
  /\ stage[f] = "fetch"
  /\ ruleFiles[f].valid
  /\ ruleFiles[f].name \notin store
  /\ stage' = [stage EXCEPT ![f] = "indexNew"]
  /\ UNCHANGED <<fnVars, esClient, faults, repo, currentSync, lastSyncResult,
                 checkpoint, store, pc, ruleFiles, i, runs, outcome, response,
                 obs>>

\* Mutant: the failed existence check ends the file with an error.
GetFailCountsError(f) ==
  /\ InBatch(f)
  /\ faults < MaxFaults
  /\ faults' = faults + 1
  /\ stage[f] = "fetch"
  /\ ruleFiles[f].valid
  /\ ruleFiles[f].name \in store
  /\ currentSync' = [currentSync EXCEPT !.errors = @ + 1]
  /\ stage' = [stage EXCEPT ![f] = "done"]
  /\ Join(stage', [obs EXCEPT !.getFails = @ + 1])
  /\ UNCHANGED <<fnVars, esClient, repo, lastSyncResult, checkpoint, store,
                 ruleFiles, runs, outcome, response>>

\* content fetched and parsed to a rule; esClient.get fails for a document
\* that is present.
GetFail(f) ==
  /\ InBatch(f)
  /\ faults < MaxFaults
  /\ faults' = faults + 1
  /\ stage[f] = "fetch"
  /\ ruleFiles[f].valid
  /\ ruleFiles[f].name \in store
  /\ stage' = [stage EXCEPT ![f] = "indexNew"]
  /\ obs' = [obs EXCEPT !.getFails = @ + 1]
  /\ UNCHANGED <<fnVars, esClient, repo, currentSync, lastSyncResult,
                 checkpoint, store, pc, ruleFiles, i, runs, outcome,
                 response>>

\* Mutant: the increment of processed is lost.
IndexOkLosesProcessed(f) ==
  /\ InBatch(f)
  /\ stage[f] \in {"indexNew", "indexUpd"}
  /\ store' = store \cup {ruleFiles[f].name}
  /\ currentSync' =
       IF stage[f] = "indexUpd"
       THEN [currentSync EXCEPT !.updated = @ + 1]
       ELSE [currentSync EXCEPT !.indexed = @ + 1]
  /\ stage' = [stage EXCEPT ![f] = "done"]
  /\ Join(stage', obs)
  /\ UNCHANGED <<fnVars, esClient, faults, repo, lastSyncResult, checkpoint,
                 ruleFiles, runs, outcome, response>>

\* esClient.index succeeds.
IndexOk(f) ==
  /\ InBatch(f)
  /\ stage[f] \in {"indexNew", "indexUpd"}
  /\ store' = store \cup {ruleFiles[f].name}
  /\ currentSync' =
       IF stage[f] = "indexUpd"
       THEN [currentSync EXCEPT !.updated = @ + 1, !.processed = @ + 1]
       ELSE [currentSync EXCEPT !.indexed = @ + 1, !.processed = @ + 1]
  /\ stage' = [stage EXCEPT ![f] = "done"]
  /\ Join(stage', obs)
  /\ UNCHANGED <<fnVars, esClient, faults, repo, lastSyncResult, checkpoint,
                 ruleFiles, runs, outcome, response>>

\* esClient.index fails: inner catch.
IndexFail(f) ==
  /\ InBatch(f)
  /\ faults < MaxFaults
  /\ faults' = faults + 1
  /\ stage[f] \in {"indexNew", "indexUpd"}
  /\ currentSync' = [currentSync EXCEPT !.errors = @ + 1,
                                        !.processed = @ + 1]
  /\ stage' = [stage EXCEPT ![f] = "done"]
  /\ Join(stage', [obs EXCEPT !.indexFails = @ + 1])
  /\ UNCHANGED <<fnVars, esClient, repo, lastSyncResult, checkpoint, store,
                 ruleFiles, runs, outcome, response>>

\* --------------------------------------------------- between the batches
\* The pacing timer fires: the next batch is dispatched.
DelayElapsed ==
  /\ pc = "delay"
  /\ i' = i + batchSize
  /\ stage' = Dispatch(stage, ruleFiles, i + batchSize)
  /\ pc' = "batch"
  /\ obs' = [obs EXCEPT !.batches = @ + 1]
  /\ UNCHANGED <<fnVars, esClient, faults, repo, currentSync, lastSyncResult,
                 checkpoint, store, ruleFiles, runs, outcome, response>>

\* ------------------------------------------------------- end of the run
RefreshOk ==
  /\ pc = "refresh"
  /\ pc' = "save"
  /\ obs' = [obs EXCEPT !.refreshed = TRUE]
  /\ UNCHANGED <<fnVars, esClient, faults, repo, currentSync, lastSyncResult,
                 checkpoint, store, ruleFiles, i, stage, runs, outcome,
                 response>>

\* Mutant: the checkpoint is written before the refresh is awaited.
RefreshFailSaves ==
  /\ pc = "refresh"
  /\ checkpoint' = [lastCommitSha |-> currentSync.lastCommitSha,
                    lastSyncTime |-> runs]
  /\ Fail("refreshError")
  /\ UNCHANGED <<fnVars, esClient, faults, repo, store, ruleFiles, i, stage,
                 runs, response>>

RefreshFail ==
  /\ pc = "refresh"
  /\ Fail("refreshError")
  /\ UNCHANGED <<fnVars, esClient, faults, repo, checkpoint, store, ruleFiles,
                 i, stage, runs, response>>

\* Success path after saveSyncState, then finally; the promise resolves.
Complete(saved) ==
  /\ lastSyncResult' = [currentSync EXCEPT !.endTime = runs]
  /\ currentSync' = NULL
  /\ pc' = "idle"
  /\ outcome' = "completed"
  /\ obs' = [NoObs EXCEPT !.save = saved]

\* Mutant: the checkpoint is written only by a run without errors.
SaveOkOnlyClean ==
  /\ pc = "save"
  /\ checkpoint' = IF currentSync.errors = 0
                   THEN [lastCommitSha |-> currentSync.lastCommitSha,
                         lastSyncTime |-> runs]
                   ELSE checkpoint
  /\ Complete("written")
  /\ UNCHANGED <<fnVars, esClient, faults, repo, store, ruleFiles, i, stage,
                 runs, response>>

\* Mutant: the write keeps the marker of the checkpoint it replaces.
SaveOkKeepsMarker ==
  /\ pc = "save"
  /\ checkpoint' = [lastCommitSha |-> IF checkpoint # NULL
                                      THEN checkpoint.lastCommitSha
                                      ELSE currentSync.lastCommitSha,
                    lastSyncTime |-> runs]
  /\ Complete("written")
  /\ UNCHANGED <<fnVars, esClient, faults, repo, store, ruleFiles, i, stage,
                 runs, response>>

\* saveSyncState wrote the checkpoint.
SaveOk ==
  /\ pc = "save"
  /\ checkpoint' = [lastCommitSha |-> currentSync.lastCommitSha,
                    lastSyncTime |-> runs]
  /\ Complete("written")
  /\ UNCHANGED <<fnVars, esClient, faults, repo, store, ruleFiles, i, stage,
                 runs, response>>

\* saveSyncState failed to write: logged only, the run completes.
SaveFail ==
  /\ pc = "save"
  /\ Complete("failed")
  /\ UNCHANGED <<fnVars, esClient, faults, repo, checkpoint, store, ruleFiles,
                 i, stage, runs, response>>

Next ==
  \/ StartConflict
  \/ StartNotConfigured
  \/ StartRun
  \/ EnsureStateIndex
  \/ EnsureStateIndexFail
  \/ EnsureRulesIndexOk
  \/ EnsureRulesIndexFail
  \/ GetSyncState
  \/ GetSyncStateFail
  \/ RepoGetOk
  \/ RepoGetFail
  \/ EnumerateFiles
  \/ EnumerateNone
  \/ \E f \in 1..MaxFiles : FetchFail(f)
  \/ \E f \in 1..MaxFiles : FetchSkipped(f)
  \/ \E f \in 1..MaxFiles : GetFound(f)
  \/ \E f \in 1..MaxFiles : GetNotFound(f)
  \/ \E f \in 1..MaxFiles : GetFail(f)
  \/ \E f \in 1..MaxFiles : IndexOk(f)
  \/ \E f \in 1..MaxFiles : IndexFail(f)
  \/ DelayElapsed
  \/ RefreshOk
  \/ RefreshFail
  \/ SaveOk
  \/ SaveFail

Spec == Init /\ [][Next]_vars

\* The answers of the calls that carry a timeout of their own, and the timer
\* between batches: the Elasticsearch client is built with requestTimeout
\* 60000 and maxRetries 3, Octokit with request.timeout 30000, so each of
\* these calls is answered (or fails) in bounded time.  The steps a worker
\* takes from stage "fetch" are not among them: they wait for
\* fetch(file.download_url), which is called with no signal and no timeout.
TimedAnswer ==
  \/ EnsureStateIndex
  \/ EnsureStateIndexFail
  \/ EnsureRulesIndexOk
  \/ EnsureRulesIndexFail
  \/ GetSyncState
  \/ GetSyncStateFail
  \/ RepoGetOk
  \/ RepoGetFail
  \/ EnumerateFiles
  \/ EnumerateNone
  \/ \E f \in 1..MaxFiles : IndexOk(f)
  \/ \E f \in 1..MaxFiles : IndexFail(f)
  \/ DelayElapsed
  \/ RefreshOk
  \/ RefreshFail
  \/ SaveOk
  \/ SaveFail

\* The run under the scheduling the code justifies: a call with a timeout
\* is eventually answered; nothing obliges the content fetch to answer.
LiveSpec == Init /\ [][Next]_vars /\ WF_vars(TimedAnswer)

\* ------------------------------------------------- GET /health, /status
\* The answer of GET /health when esClient.ping answers pingOk.  The
\* object is built from the two slots before the first await; the ping
\* alone decides the status.
Health(pingOk) ==
  [status |-> IF esClient /\ ~pingOk THEN "degraded" ELSE "ok",
   elasticsearch |-> IF ~esClient THEN "unknown"
                     ELSE IF pingOk THEN "healthy" ELSE "unhealthy",
   lastSync |-> IF lastSyncResult # NULL
                THEN [timestamp |-> lastSyncResult.endTime,
                      processed |-> lastSyncResult.processed,
                      indexed |-> lastSyncResult.indexed,
                      updated |-> lastSyncResult.updated,
                      errors |-> lastSyncResult.errors,
                      lastCommitSha |-> lastSyncResult.lastCommitSha]
                ELSE NULL,
   currentSync |-> IF currentSync # NULL
                   THEN [running |-> TRUE,
                         progress |-> <<currentSync.processed,
                                        currentSync.totalFiles>>,
                         errors |-> currentSync.errors]
                   ELSE [running |-> FALSE]]

\* The answer of GET /api/sync/status when getSyncState answers syncState
\* (the checkpoint, or {} on a failure).
SyncStatus(syncState) ==
  [lastSync |-> lastSyncResult,
   currentSync |-> IF currentSync # NULL
                   THEN [running |-> TRUE,
                         progress |-> currentSync.processed,
                         total |-> currentSync.totalFiles,
                         errors |-> currentSync.errors,
                         startTime |-> currentSync.startTime]
                   ELSE [running |-> FALSE],
   syncState |-> syncState]

\* ================================================= parseDetectionRule
\* A string is a sequence of tokens; a token stands for characters that the
\* parser never splits.  The empty string is <<>>.
TQ == "\"\"\""      \* three double quotes
EQ == " = "
Q == "\""
NL == "\n"

\* The value of a field that was never assigned; no token of a file.
undefined == <<"undefined">>

\* JavaScript truthiness of an optional string.
Truthy(s) == s # undefined /\ s # <<>>

\* s.indexOf(t) + 1: the position of the first token t of s, or 0.
IndexOf(s, t) ==
  IF \E k \in 1..Len(s) : s[k] = t
  THEN CHOOSE k \in 1..Len(s) : s[k] = t /\ \A j \in 1..(k - 1) : s[j] # t
  ELSE 0

\* s.includes(t)
Includes(s, t) == IndexOf(s, t) > 0

\* s.replace(t, ''): the first occurrence only.
RemoveFirst(s, t) ==
  LET k == IndexOf(s, t)
  IN IF k = 0 THEN s ELSE SubSeq(s, 1, k - 1) \o SubSeq(s, k + 1, Len(s))

Whitespace == {NL, " "}

RECURSIVE TrimStart(_)
TrimStart(s) ==
  IF s # <<>> /\ Head(s) \in Whitespace THEN TrimStart(Tail(s)) ELSE s

RECURSIVE TrimEnd(_)
TrimEnd(s) ==
  IF s # <<>> /\ s[Len(s)] \in Whitespace
  THEN TrimEnd(SubSeq(s, 1, Len(s) - 1)) ELSE s

\* s.trim()
Trim(s) == TrimEnd(TrimStart(s))

\* value.replace(/^["']|["']$/g, ''): one quote off each end.
StripQuotes(s) ==
  LET a == IF s # <<>> /\ Head(s) = Q THEN Tail(s) ELSE s
  IN IF a # <<>> /\ a[Len(a)] = Q THEN SubSeq(a, 1, Len(a) - 1) ELSE a

\* A number, the result NaN of parseInt, and the value of a numeric field
\* that was never assigned.
Number(n) == [number |-> n]
NaN == [nan |-> TRUE]
undefinedNumber == [undefined |-> TRUE]

\* The digit tokens of the model and their values.
IntOf == ("0" :> 0) @@ ("7" :> 7) @@ ("73" :> 73)

\* parseInt(s): leading white space is skipped; the number of the leading
\* digits, NaN if there are none.
parseInt(s) ==
  LET t == TrimStart(s)
  IN IF t # <<>> /\ Head(t) \in DOMAIN IntOf THEN Number(IntOf[Head(t)])
     ELSE NaN

\* v || d for the result v of parseInt: NaN and 0 are falsy.
OrElse(v, d) == IF v = NaN \/ v = Number(0) THEN Number(d) ELSE v

\* The entity before the first line: the id is the file name with its
\* first '.toml' removed; riskScore and version are not among the fields
\* of the literal.  The fields no property reads are left out.
NewRule(name) ==
  [id |-> RemoveFirst(name, ".toml"), ruleSource |-> name,
   name |-> undefined, query |-> undefined, type |-> undefined,
   description |-> undefined, note |-> undefined,
   maturity |-> undefined,
   riskScore |-> undefinedNumber, version |-> undefinedNumber]

\* The locals of parseDetectionRule before the first line.
NewParser(name) ==
  [rule |-> NewRule(name), currentSection |-> <<>>,
   inMultilineString |-> FALSE, multilineBuffer |-> <<>>,
   inMetadataSection |-> FALSE, inRuleSection |-> FALSE,
   machineLearningJobId |-> <<>>]

\* Mutant: the opening line is part of the context.
ContextIncludesOpening(lines, k, key) ==
  \E j \in 1..Len(lines) :
     /\ k - 2 <= j /\ j <= k
     /\ \E c \in 1..(Len(lines[j]) - 1) :
          lines[j][c] = key /\ lines[j][c + 1] = EQ

\* prevLines.join(' ').toLowerCase().includes(key + ' ='), the two lines
\* before line k.
ContextIncludes(lines, k, key) ==
  \E j \in 1..Len(lines) :
     /\ k - 2 <= j /\ j < k
     /\ \E c \in 1..(Len(lines[j]) - 1) :
          lines[j][c] = key /\ lines[j][c + 1] = EQ

\* Mutant: the end of a capture leaves the parser in neither section.
EndMultilineToRoot(p, line) ==
  LET text == Trim(p.multilineBuffer \o RemoveFirst(line, TQ))
      r == p.rule
  IN [p EXCEPT
        !.rule = IF p.currentSection = <<"query">>
                 THEN [r EXCEPT !.query = text]
                 ELSE IF p.currentSection = <<"description">>
                 THEN [r EXCEPT !.description = text]
                 ELSE IF p.currentSection = <<"note">>
                 THEN [r EXCEPT !.note = text]
                 ELSE r,
        !.inMultilineString = FALSE,
        !.multilineBuffer = <<>>,
        !.currentSection = <<>>,
        !.inMetadataSection = FALSE,
        !.inRuleSection = FALSE]

\* A line with '"""' while capturing: the capture ends.
EndMultiline(p, line) ==
  LET text == Trim(p.multilineBuffer \o RemoveFirst(line, TQ))
      r == p.rule
  IN [p EXCEPT
        !.rule = IF p.currentSection = <<"query">>
                 THEN [r EXCEPT !.query = text]
                 ELSE IF p.currentSection = <<"description">>
                 THEN [r EXCEPT !.description = text]
                 ELSE IF p.currentSection = <<"note">>
                 THEN [r EXCEPT !.note = text]
                 ELSE r,
        !.inMultilineString = FALSE,
        !.multilineBuffer = <<>>,
        !.currentSection = <<>>]

\* A line with '"""' while not capturing: the capture starts.
StartMultiline(p, lines, k) ==
  [p EXCEPT
     !.inMultilineString = TRUE,
     !.multilineBuffer = RemoveFirst(lines[k], TQ),
     !.currentSection =
        IF ContextIncludes(lines, k, "query") THEN <<"query">>
        ELSE IF ContextIncludes(lines, k, "description")
        THEN <<"description">>
        ELSE IF ContextIncludes(lines, k, "note") THEN <<"note">>
        ELSE p.currentSection]

\* Mutant: the switches are entered in every section.
InSectionAlways(flag) == TRUE

\* The guard of the switch of a section.
InSection(flag) == flag

\* A 'key = value' line: the switch of the metadata section, then the
\* switch of the rule section; the flags of the two are never both set.
\* The keys that are not listed assign fields that are left out of the
\* entity.
KeyValue(p, line) ==
  LET e == IndexOf(line, EQ)
      key == Trim(SubSeq(line, 1, e - 1))
      value == Trim(SubSeq(line, e + 1, Len(line)))
      cleanValue == StripQuotes(value)
      r == p.rule
      m == IF InSection(p.inMetadataSection) /\ key = <<"maturity">>
           THEN [p EXCEPT !.rule.maturity = cleanValue] ELSE p
  IN IF ~InSection(p.inRuleSection) THEN m
     ELSE IF key = <<"name">> THEN [m EXCEPT !.rule.name = cleanValue]
     ELSE IF key = <<"description">>
     THEN IF Includes(value, TQ) THEN m
          ELSE [m EXCEPT !.rule.description = cleanValue]
     ELSE IF key = <<"query">>
     THEN IF Includes(value, TQ) THEN m
          ELSE [m EXCEPT !.rule.query = cleanValue]
     ELSE IF key = <<"type">> THEN [m EXCEPT !.rule.type = cleanValue]
     ELSE IF key = <<"risk_score">>
     THEN [m EXCEPT !.rule.riskScore = OrElse(parseInt(cleanValue), 0)]
     ELSE IF key = <<"version">>
     THEN [m EXCEPT !.rule.version = OrElse(parseInt(cleanValue), 1)]
     ELSE IF key = <<"note">>
     THEN IF Includes(value, TQ) THEN m
          ELSE [m EXCEPT !.rule.note = cleanValue]
     ELSE IF key = <<"machine_learning_job_id">>
     THEN [m EXCEPT !.machineLearningJobId = cleanValue]
     ELSE m

\* Mutant: a repeated-table marker leaves the section as it is.
SubTableKeepsSection(p) == p

\* A line that starts with '[[rule.': neither section.
SubTable(p) ==
  [p EXCEPT !.inMetadataSection = FALSE, !.inRuleSection = FALSE]

\* The body of the line loop for line k, which is trimmed first: blank and
\* comment lines, the section markers, the triple quote, the capture, the
\* key-value pairs, in the order of the code.
ParseLine(p, lines, k) ==
  LET line == Trim(lines[k])
  IN IF line = <<>> \/ Head(line) = "#" THEN p
     ELSE IF line = <<"[metadata]">>
     THEN [p EXCEPT !.inMetadataSection = TRUE, !.inRuleSection = FALSE]
     ELSE IF line = <<"[rule]">>
     THEN [p EXCEPT !.inMetadataSection = FALSE, !.inRuleSection = TRUE]
     ELSE IF Head(line) = "[[rule." THEN SubTable(p)
     ELSE IF Includes(line, TQ)
     THEN IF p.inMultilineString THEN EndMultiline(p, line)
          ELSE StartMultiline(p, lines, k)
     ELSE IF p.inMultilineString
     THEN [p EXCEPT !.multilineBuffer = @ \o <<NL>> \o line]
     ELSE IF Includes(line, EQ) THEN KeyValue(p, line)
     ELSE p

RECURSIVE ParseLines(_, _, _)
ParseLines(p, lines, k) ==
  IF k > Len(lines) THEN p
  ELSE ParseLines(ParseLine(p, lines, k), lines, k + 1)

\* The locals of parseDetectionRule after the line loop.
LineLoop(lines, name) == ParseLines(NewParser(name), lines, 1)

\* Mutant: no query is synthesised for a machine learning rule.
MlSynthesisNone(r, jobId) == r

\* The pass after the loop: a rule without a query that named a machine
\* learning job gets a synthetic query and, if it has none, a type.
MlSynthesis(r, jobId) ==
  IF ~Truthy(r.query) /\ jobId # <<>>
  THEN [r EXCEPT !.query = <<"ML Job: ">> \o jobId,
                 !.type = IF Truthy(r.type) THEN r.type
                          ELSE <<"machine_learning">>]
  ELSE r

\* Mutant: a name is enough.
AcceptedByName(r, jobId) == Truthy(r.name)

\* The validation: hasName and (hasQuery or isMlRule).
Accepted(r, jobId) ==
  LET hasName == r.name # undefined /\ Len(r.name) > 0
      hasQuery == r.query # undefined /\ Len(r.query) > 0
      isMlRule == jobId # <<>> /\ Len(jobId) > 0
  IN ~(~hasName \/ (~hasQuery /\ ~isMlRule))

\* The statements after the line loop: the entity, or NULL.
AfterLoop(p) ==
  LET r == MlSynthesis(p.rule, p.machineLearningJobId)
  IN IF Accepted(r, p.machineLearningJobId) THEN r ELSE NULL

\* parseDetectionRule(content, filename): the entity, or NULL.  No
\* statement of the modelled code throws, so the catch is never entered.
parseDetectionRule(lines, name) == AfterLoop(LineLoop(lines, name))

\* ----------------------------------------- the worker of one fetched file
MaxLines == 3      \* most lines of a file of the model

\* The lines the files of the model are made of.
RuleLines ==
  {<<>>,
   <<"[metadata]">>, <<"[rule]">>, <<"[[rule.", "threat]]">>,
   <<"name", EQ, Q, "n", Q>>,
   <<"name", EQ, Q, Q>>,
   <<"query", EQ, Q, "q", Q>>,
   <<"query", EQ, TQ>>,
   <<"type", EQ, Q, "t", Q>>,
   <<"machine_learning_job_id", EQ, Q, "j", Q>>,
   <<"machine_learning_job_id", EQ, Q, Q>>,
   <<"b">>,
   <<TQ>>}

Contents == UNION {[1..n -> RuleLines] : n \in 0..MaxLines}

\* Names the enumerator can return: each ends with '.toml'.
FileNames ==
  {<<"a", ".toml">>, <<"b", ".toml">>, <<"a", ".", "b", ".toml">>,
   <<"a", ".toml", "b", ".toml">>}

\* The result of a call that has not returned.
PENDING == [pending |-> TRUE]

\* The run of the parser specification: one worker of one batch, whose
\* fetch is being awaited; the store is empty and nothing else of the run
\* moves.
InitParser ==
  /\ EnumIdle
  /\ TextIdle
  /\ content \in Contents
  /\ filename \in FileNames
  /\ rule = PENDING
  /\ esClient = TRUE
  /\ repo = <<>>
  /\ runs = 1
  /\ currentSync = [totalFiles |-> 1, processed |-> 0, indexed |-> 0,
                    updated |-> 0, skipped |-> 0, errors |-> 0,
                    startTime |-> 1, endTime |-> 0, lastCommitSha |-> 1]
  /\ lastSyncResult = NULL
  /\ checkpoint = NULL
  /\ store = {}
  /\ pc = "batch"
  /\ ruleFiles = <<>>
  /\ i = 0
  /\ stage = <<"fetch">>
  /\ outcome = "pending"
  /\ response = "started"
  /\ faults = 0
  /\ obs = [NoObs EXCEPT !.batches = 1]

\* The content is fetched and parsed: a rejected file is counted skipped,
\* an entity goes on to the upsert (no document is in the store, so the
\* existence check answers 404).
ParseFile ==
  /\ rule = PENDING
  /\ stage = <<"fetch">>
  /\ rule' = parseDetectionRule(content, filename)
  /\ IF rule' = NULL
     THEN /\ currentSync' = [currentSync EXCEPT !.skipped = @ + 1,
                                                !.processed = @ + 1]
          /\ stage' = <<"done">>
     ELSE /\ currentSync' = currentSync
          /\ stage' = <<"indexNew">>
  /\ UNCHANGED <<esClient, repo, lastSyncResult, checkpoint, store, pc,
                 ruleFiles, i, runs, outcome, response, faults, obs,
                 content, filename, tree, stack, calling, allFiles,
                 visited, failed, textVars>>

\* esClient.index succeeds for the entity.
UpsertRule ==
  /\ stage = <<"indexNew">>
  /\ store' = store \cup {rule.id}
  /\ currentSync' = [currentSync EXCEPT !.indexed = @ + 1,
                                        !.processed = @ + 1]
  /\ stage' = <<"done">>
  /\ UNCHANGED <<fnVars, esClient, repo, lastSyncResult, checkpoint, pc,
                 ruleFiles, i, runs, outcome, response, faults, obs>>

NextParser == ParseFile \/ UpsertRule

ParserSpec == InitParser /\ [][NextParser]_vars

\* ===================================================== getAllRuleFiles
fileCap == 1000

MaxDirs == 2       \* most directories below 'rules' in a tree of the model

\* The sizes of the runs of rule files in a listing.
FileRuns == {0, 500}

\* n consecutive items of a listing of directory d that are rule files
\* (type file, a name ending in '.toml', a download url).
FileItems(d, n) ==
  IF n = 0 THEN <<>> ELSE <<[type |-> "file", dir |-> d, n |-> n]>>

\* The items of type dir of the listing of d, by path: the directories c
\* in from..last whose parent is d.
RECURSIVE DirItems(_, _, _, _)
DirItems(parent, d, from, last) ==
  IF from > last THEN <<>>
  ELSE (IF parent[from] = d THEN <<[type |-> "dir", path |-> from]>>
        ELSE <<>>) \o DirItems(parent, d, from + 1, last)

\* A remote tree: directory 0 is 'rules'; the listing of a directory is a
\* run of rule files, its subdirectories, and a second run of rule files.
\* Items that are neither a rule file nor a directory are skipped by the
\* loop and are left out.
TreeOf(last, parent, before, after) ==
  [d \in 0..last |->
     FileItems(d, before[d]) \o DirItems(parent, d, 1, last)
       \o FileItems(d, after[d])]

Trees ==
  {TreeOf(last, parent, before, after) :
     last \in 0..MaxDirs,
     parent \in {p \in [1..MaxDirs -> 0..MaxDirs] :
                   \A d \in 1..MaxDirs : p[d] < d},
     before \in [0..MaxDirs -> FileRuns],
     after \in [0..MaxDirs -> FileRuns]}

\* allFiles.length
RECURSIVE Length(_)
Length(files) ==
  IF files = <<>> THEN 0 ELSE Head(files).n + Length(Tail(files))

\* Mutant: the loop descends whatever has been collected.
DescendAlways(files) == TRUE

\* The guard of the descent into a directory.
Descend(files) == Length(files) < fileCap

\* The for loop of the innermost traverseDirectory call, run from the item
\* after the one it stands at until the next getContent call or, through
\* the returns to the callers, the end of the enumeration.
RECURSIVE Loop(_, _)
Loop(stk, files) ==
  IF stk = <<>>
  THEN [stack |-> <<>>, calling |-> NoCall, allFiles |-> files]
  ELSE LET fr == stk[Len(stk)]
           rest == SubSeq(stk, 1, Len(stk) - 1)
           k == fr.k + 1
       IN IF k > Len(tree[fr.path]) THEN Loop(rest, files)
          ELSE LET item == tree[fr.path][k]
                   at == Append(rest, [fr EXCEPT !.k = k])
               IN IF item.type = "file" THEN Loop(at, Append(files, item))
                  ELSE IF Descend(files)
                  THEN [stack |-> at, calling |-> item.path,
                        allFiles |-> files]
                  ELSE Loop(at, files)

\* The enumeration of a run: getContent of 'rules' is awaited.
InitEnum ==
  /\ ParserIdle
  /\ TextIdle
  /\ tree \in Trees
  /\ stack = <<>>
  /\ calling = 0
  /\ allFiles = <<>>
  /\ visited = {0}
  /\ failed = {}
  /\ esClient = TRUE
  /\ repo = <<>>
  /\ runs = 1
  /\ currentSync = [totalFiles |-> 0, processed |-> 0, indexed |-> 0,
                    updated |-> 0, skipped |-> 0, errors |-> 0,
                    startTime |-> 1, endTime |-> 0, lastCommitSha |-> 1]
  /\ lastSyncResult = NULL
  /\ checkpoint = NULL
  /\ store = {}
  /\ pc = "enumerate"
  /\ ruleFiles = <<>>
  /\ i = 0
  /\ stage = <<>>
  /\ outcome = "pending"
  /\ response = "started"
  /\ faults = 0
  /\ obs = NoObs

\* The enumeration goes on from the stack stk.
Traverse(stk) ==
  LET r == Loop(stk, allFiles)
  IN /\ stack' = r.stack
     /\ calling' = r.calling
     /\ allFiles' = r.allFiles
     /\ visited' = visited \cup (IF r.calling = NoCall THEN {}
                                 ELSE {r.calling})

\* getContent answers the listing of the directory: its loop starts.
ListOk ==
  /\ calling # NoCall
  /\ Traverse(Append(stack, [path |-> calling, k |-> 0]))
  /\ UNCHANGED <<esClient, repo, currentSync, lastSyncResult, checkpoint,
                 store, pc, ruleFiles, i, stage, runs, outcome, response,
                 faults, obs, content, filename, rule, tree, failed,
                 textVars>>

\* Mutant: the failure is not caught and ends the enumeration.
ListFailAborts ==
  /\ calling # NoCall
  /\ failed' = failed \cup {calling}
  /\ stack' = <<>>
  /\ calling' = NoCall
  /\ UNCHANGED <<esClient, repo, currentSync, lastSyncResult, checkpoint,
                 store, pc, ruleFiles, i, stage, runs, outcome, response,
                 faults, obs, content, filename, rule, tree, allFiles,
                 visited, textVars>>

\* getContent fails: the catch of this traverseDirectory call logs it and
\* the call returns; the loop of the caller goes on.
ListFail ==
  /\ calling # NoCall
  /\ failed' = failed \cup {calling}
  /\ Traverse(stack)
  /\ UNCHANGED <<esClient, repo, currentSync, lastSyncResult, checkpoint,
                 store, pc, ruleFiles, i, stage, runs, outcome, response,
                 faults, obs, content, filename, rule, tree, textVars>>

NextEnum == ListOk \/ ListFail

EnumSpec == InitEnum /\ [][NextEnum]_vars

\* ------------------------------------- the line loop, one line a step
\* The lines the files of the line specification continue with.
BodyLines ==
  {<<>>, <<"#", "c">>,
   <<"[metadata]">>, <<"[rule]">>, <<"[[rule.", "threat]]">>,
   <<"name", EQ, Q, "m", Q>>,
   <<"query", EQ, TQ>>,
   <<" ", "b">>,
   <<TQ>>,
   <<"risk_score", EQ, "73">>,
   <<"risk_score", EQ, Q, "high", Q>>,
   <<"version", EQ, "0">>,
   <<"maturity", EQ, Q, "p", Q>>,
   <<"#", TQ>>}

\* The lines they start with: nothing, or a rule section with a name and
\* a query.
Prefixes ==
  {<<>>,
   <<<<"[rule]">>, <<"name", EQ, Q, "n", Q>>, <<"query", EQ, Q, "q", Q>>>>}

LineContents ==
  {pre \o body : pre \in Prefixes,
                 body \in UNION {[1..n -> BodyLines] : n \in 0..MaxLines}}

\* The run of a worker whose parseDetectionRule call is under way.
WorkerRun ==
  /\ esClient = TRUE
  /\ repo = <<>>
  /\ runs = 1
  /\ currentSync = [totalFiles |-> 1, processed |-> 0, indexed |-> 0,
                    updated |-> 0, skipped |-> 0, errors |-> 0,
                    startTime |-> 1, endTime |-> 0, lastCommitSha |-> 1]
  /\ lastSyncResult = NULL
  /\ checkpoint = NULL
  /\ store = {}
  /\ ruleFiles = <<>>
  /\ i = 0
  /\ stage = <<"fetch">>
  /\ outcome = "pending"
  /\ response = "started"
  /\ faults = 0
  /\ obs = [NoObs EXCEPT !.batches = 1]

\* parseDetectionRule was called and is before the first line; lineNo is
\* i + 1 of the code.
InitLines ==
  /\ EnumIdle
  /\ WorkerRun
  /\ pc = "lines"
  /\ content \in LineContents
  /\ filename = <<"a", ".toml">>
  /\ rule = PENDING
  /\ parser = NewParser(filename)
  /\ lineNo = 1
  /\ query = <<>> /\ fields = <<>>
  /\ dateStr = <<>> /\ date = <<>>

\* One pass of the for loop.
ReadLine ==
  /\ pc = "lines"
  /\ lineNo <= Len(content)
  /\ parser' = ParseLine(parser, content, lineNo)
  /\ lineNo' = lineNo + 1
  /\ UNCHANGED <<runVars, enumVars, pc, content, filename, rule, query,
                 fields, dateStr, date>>

\* The loop is left: the statements after it make the result.
ReturnRule ==
  /\ pc = "lines"
  /\ lineNo > Len(content)
  /\ rule' = AfterLoop(parser)
  /\ pc' = "parsed"
  /\ UNCHANGED <<runVars, enumVars, content, filename, textVars>>

NextLines == ReadLine \/ ReturnRule

LineSpec == InitLines /\ [][NextLines]_vars

\* ============================================= extractFieldsFromQuery
\* The query text is a sequence of characters.  "a" stands for the letters
\* a-z, "1" for the characters of \w that are neither a-z nor '_', " " for
\* the characters that are neither of \w nor '.' nor ':'.
QueryChars == {"a", "_", "1", ".", ":", " "}

MaxChars == 5     \* most characters of a short query of the model
fieldCap == 20    \* slice(0, 20)
minLength == 2    \* field.length > 2

\* \w and [a-z_]
IsWord(c) == c \in {"a", "_", "1"}
IsLower(c) == c \in {"a", "_"}

\* The last position of the run of \w characters that holds position k.
RECURSIVE WordEnd(_, _)
WordEnd(s, k) ==
  IF k < Len(s) /\ IsWord(s[k + 1]) THEN WordEnd(s, k + 1) ELSE k

\* (?:\.\w+)* after a run that ends at e: the last position it reaches.
RECURSIVE ChainEnd(_, _)
ChainEnd(s, e) ==
  IF e + 2 <= Len(s) /\ s[e + 1] = "." /\ IsWord(s[e + 2])
  THEN ChainEnd(s, WordEnd(s, e + 2)) ELSE e

\* s.match(/(\w+\.\w+(?:\.\w+)*)/g) from position k on, which starts a
\* run or is outside one: the runs joined by single dots, two at least.
RECURSIVE MatchPaths(_, _)
MatchPaths(s, k) ==
  IF k > Len(s) THEN <<>>
  ELSE IF ~IsWord(s[k]) THEN MatchPaths(s, k + 1)
  ELSE LET e == WordEnd(s, k)
           c == ChainEnd(s, e)
       IN IF c > e THEN <<SubSeq(s, k, c)>> \o MatchPaths(s, c + 1)
          ELSE MatchPaths(s, e + 1)

\* s.match(/\b([a-z_]+):/g) from position k on: the runs of \w that are
\* all of a-z and '_' and are followed by ':', with the colon.
RECURSIVE MatchKeys(_, _)
MatchKeys(s, k) ==
  IF k > Len(s) THEN <<>>
  ELSE IF ~IsWord(s[k]) THEN MatchKeys(s, k + 1)
  ELSE LET e == WordEnd(s, k)
       IN IF /\ \A j \in k..e : IsLower(s[j])
             /\ e < Len(s) /\ s[e + 1] = ":"
          THEN <<SubSeq(s, k, e + 1)>> \o MatchKeys(s, e + 2)
          ELSE MatchKeys(s, e + 1)

\* The matches of the two patterns in the order forEach visits them.
Matches(s) == MatchPaths(s, 1) \o MatchKeys(s, 1)

\* match.replace(':', '').trim()
FieldOf(match) == Trim(RemoveFirst(match, ":"))

\* field && field.length > 2 && !field.includes(' ')
Keep(field) ==
  field # <<>> /\ Len(field) > minLength /\ ~Includes(field, " ")

\* fields.add for every match that is kept, in order: a Set keeps the
\* order of the first insertions.
RECURSIVE AddAll(_, _)
AddAll(set, matches) ==
  IF matches = <<>> THEN set
  ELSE LET field == FieldOf(Head(matches))
       IN AddAll(IF Keep(field) /\ ~\E j \in 1..Len(set) : set[j] = field
                 THEN Append(set, field) ELSE set,
                 Tail(matches))

\* Mutant: the result is not cut.
SliceNone(all) == all

\* Array.from(fields).slice(0, 20)
Slice(all) == SubSeq(all, 1, Min(Len(all), fieldCap))

extractFieldsFromQuery(s) == Slice(AddAll(<<>>, Matches(s)))

\* The name of number n, of len characters, each c0 or c1.
RECURSIVE Code(_, _, _, _)
Code(n, len, c0, c1) ==
  IF len = 0 THEN <<>>
  ELSE Code(n \div 2, len - 1, c0, c1) \o <<IF n % 2 = 0 THEN c0 ELSE c1>>

\* n different keys 'aaaa_: aaa_a: ...'
RECURSIVE KeysQuery(_)
KeysQuery(n) ==
  IF n = 0 THEN <<>>
  ELSE KeysQuery(n - 1) \o Code(n, 5, "a", "_") \o <<":", " ">>

\* n different paths 'a.aaaa1 a.aaa1a ...'
RECURSIVE PathsQuery(_)
PathsQuery(n) ==
  IF n = 0 THEN <<>>
  ELSE PathsQuery(n - 1) \o <<"a", ".">> \o Code(n, 5, "a", "1") \o <<" ">>

\* The short texts, and texts with about fieldCap different names.
Queries ==
  UNION {[1..n -> QueryChars] : n \in 0..MaxChars}
    \cup {KeysQuery(n) : n \in (fieldCap - 1)..(fieldCap + 1)}
    \cup {PathsQuery(fieldCap + 1),
          PathsQuery(fieldCap \div 2) \o KeysQuery(fieldCap \div 2 + 1)
            \o <<"a", ":", " ">> \o KeysQuery(1)}

\* A worker called parseDetectionRule, which calls the extractor with the
\* query of the rule.
InitExtract ==
  /\ EnumIdle
  /\ ParserIdle
  /\ WorkerRun
  /\ pc = "extract"
  /\ parser = NULL /\ lineNo = 0
  /\ query \in Queries
  /\ fields = <<>>
  /\ dateStr = <<>> /\ date = <<>>

\* The call returns.
ExtractFields ==
  /\ pc = "extract"
  /\ fields' = extractFieldsFromQuery(query)
  /\ pc' = "extracted"
  /\ UNCHANGED <<runVars, enumVars, content, filename, rule, parser, lineNo,
                 query, dateStr, date>>

\* A second call with the same text returns.
ExtractAgain ==
  /\ pc = "extracted"
  /\ fields' = extractFieldsFromQuery(query)
  /\ pc' = "again"
  /\ UNCHANGED <<runVars, enumVars, content, filename, rule, parser, lineNo,
                 query, dateStr, date>>

NextExtract == ExtractFields \/ ExtractAgain

ExtractSpec == InitExtract /\ [][NextExtract]_vars

\* ======================================================= parseTomlDate
\* The text of a date is a sequence of characters; "x" stands for the
\* characters that are no digit, no '/', no '-' and no '.'.
Digits == {"0", "1", "2", "4", "5", "7"}

IsDigit(c) == c \in Digits

\* /^\d{4}<sep>\d{2}<sep>\d{2}$/
Shape(s, sep) ==
  /\ Len(s) = 10
  /\ \A k \in {1, 2, 3, 4, 6, 7, 9, 10} : IsDigit(s[k])
  /\ s[5] = sep /\ s[8] = sep

\* Mutant: the separators are left as they are.
DashedNone(s) == s

\* dateStr.replace(/\//g, '-')
Dashed(s) == [k \in 1..Len(s) |-> IF s[k] = "/" THEN "-" ELSE s[k]]

\* The texts the model normalizes: year, month and day of several widths
\* with each pair of separators, with and without a tail; the empty text;
\* a text of one letter.
DateTexts ==
  {y \o <<s1>> \o m \o <<s2>> \o d \o t :
     y \in {<<"2", "0", "2", "4">>, <<"2", "4">>, <<"2", "0", "2", "4", "0">>},
     s1 \in {"/", "-", "."}, s2 \in {"/", "-", "."},
     m \in {<<"0", "7">>, <<"7">>, <<"1", "7">>, <<"x", "x">>},
     d \in {<<"2", "5">>, <<"5">>, <<"4", "5">>, <<"x", "x">>},
     t \in {<<>>, <<" ">>, <<"x">>}}
    \cup {<<>>, <<"x">>}

\* date.toISOString().split('T')[0] of the dates new Date(dateStr) can
\* give for a text: the parser of Date for texts that are not in the ISO
\* format is left to the engine, and the day is taken in UTC from a time
\* that may have been read as local.  Years after 9999 print with a sign
\* and six digits.
IsoDays ==
  {<<"2", "0", "2", "4", "-", "0", "7", "-", "2", "5">>,
   <<"2", "0", "2", "4", "-", "0", "7", "-", "2", "4">>,
   <<"+", "0", "2", "0", "2", "4", "0", "-", "0", "7", "-", "2", "5">>}

\* A worker called parseDetectionRule, which calls parseTomlDate with the
\* value of creation_date or updated_date.
InitDate ==
  /\ EnumIdle
  /\ ParserIdle
  /\ WorkerRun
  /\ pc = "normalize"
  /\ parser = NULL /\ lineNo = 0
  /\ query = <<>> /\ fields = <<>>
  /\ dateStr \in DateTexts
  /\ date = <<>>

\* The empty text and the texts of the two shapes return at once.
ReturnShaped ==
  /\ pc = "normalize"
  /\ \/ dateStr = <<>> /\ date' = undefined
     \/ Shape(dateStr, "/") /\ date' = Dashed(dateStr)
     \/ Shape(dateStr, "-") /\ date' = dateStr
  /\ pc' = "returned"
  /\ UNCHANGED <<runVars, enumVars, content, filename, rule, parser, lineNo,
                 query, fields, dateStr>>

\* new Date(dateStr) for another text: the date it read, held here by its
\* day in ISO format.
NewDateValid ==
  /\ pc = "normalize"
  /\ dateStr # <<>> /\ ~Shape(dateStr, "/") /\ ~Shape(dateStr, "-")
  /\ date' \in IsoDays
  /\ pc' = "dateValid"
  /\ UNCHANGED <<runVars, enumVars, content, filename, rule, parser, lineNo,
                 query, fields, dateStr>>

\* new Date(dateStr) for another text: Invalid Date.  The constructor
\* does not throw.
NewDateInvalid ==
  /\ pc = "normalize"
  /\ dateStr # <<>> /\ ~Shape(dateStr, "/") /\ ~Shape(dateStr, "-")
  /\ pc' = "dateInvalid"
  /\ UNCHANGED <<runVars, enumVars, content, filename, rule, textVars>>

\* !isNaN(date.getTime()): the day of the date is returned.
ReturnParsed ==
  /\ pc = "dateValid"
  /\ pc' = "returned"
  /\ UNCHANGED <<runVars, enumVars, content, filename, rule, textVars>>

\* isNaN(date.getTime()): toISOString is not called, undefined is returned.
ReturnUndefined ==
  /\ pc = "dateInvalid"
  /\ date' = undefined
  /\ pc' = "returned"
  /\ UNCHANGED <<runVars, enumVars, content, filename, rule, parser, lineNo,
                 query, fields, dateStr>>

\* The function is called with what it returned.
NormalizeAgain ==
  /\ pc = "returned"
  /\ date # undefined /\ date # dateStr
  /\ dateStr' = date
  /\ date' = <<>>
  /\ pc' = "normalize"
  /\ UNCHANGED <<runVars, enumVars, content, filename, rule, parser, lineNo,
                 query, fields>>

NextDate ==
  \/ ReturnShaped
  \/ NewDateValid
  \/ NewDateInvalid
  \/ ReturnParsed
  \/ ReturnUndefined
  \/ NormalizeAgain

DateSpec == InitDate /\ [][NextDate]_vars

\* ------------------------------- getAllRuleFiles over listings with cycles
MaxDepth == 2      \* the innermost traverseDirectory calls that are kept

\* A listing for every path, where a directory may list any directory,
\* itself and its ancestors included: a run of rule files, then at most
\* one item of type dir.
NoDir == -1

LinkedTreeOf(last, next, before) ==
  [d \in 0..last |->
     FileItems(d, before[d])
       \o (IF next[d] \in 0..last
           THEN <<[type |-> "dir", path |-> next[d]]>> ELSE <<>>)]

LinkedTrees ==
  {LinkedTreeOf(last, next, before) :
     last \in 0..MaxDirs,
     next \in [0..MaxDirs -> {NoDir} \cup 0..MaxDirs],
     before \in [0..MaxDirs -> FileRuns]}

\* The innermost MaxDepth calls of a stack.  The calls below them are
\* resumed only when these have returned; the specification does not
\* follow a run further than that.
Innermost(stk) ==
  IF Len(stk) > MaxDepth
  THEN SubSeq(stk, Len(stk) - MaxDepth + 1, Len(stk)) ELSE stk

InitEnumLive ==
  /\ ParserIdle
  /\ TextIdle
  /\ WorkerRun
  /\ pc = "enumerate"
  /\ tree \in LinkedTrees
  /\ stack = <<>>
  /\ calling = 0
  /\ allFiles = <<>>
  /\ visited = {0}
  /\ failed = {}

\* The enumeration goes on from the stack stk; pc tells whether calls
\* were dropped from the stack.
TraverseInnermost(stk) ==
  LET r == Loop(stk, allFiles)
  IN /\ stack' = Innermost(r.stack)
     /\ pc' = IF Len(r.stack) > MaxDepth THEN "deep" ELSE pc
     /\ calling' = r.calling
     /\ allFiles' = r.allFiles
     /\ visited' = visited \cup (IF r.calling = NoCall THEN {}
                                 ELSE {r.calling})

\* getContent answers the listing of the directory: its loop starts.
ListOkLinked ==
  /\ calling # NoCall
  /\ TraverseInnermost(Append(stack, [path |-> calling, k |-> 0]))
  /\ UNCHANGED <<runVars, content, filename, rule, tree, failed, textVars>>

\* getContent fails: the call returns and the loop of the caller goes on.
ListFailLinked ==
  /\ calling # NoCall
  /\ failed' = failed \cup {calling}
  /\ TraverseInnermost(stack)
  /\ UNCHANGED <<runVars, content, filename, rule, tree, textVars>>

NextEnumLive == ListOkLinked \/ ListFailLinked

\* Octokit is created with request.timeout 30000: every getContent call
\* is answered or fails.
EnumLiveSpec ==
  InitEnumLive /\ [][NextEnumLive]_vars /\ WF_vars(NextEnumLive)

\* ------------------------------------------------------------ properties
FailedOutcomes == {"schemaError", "repoError", "zeroFiles", "refreshError"}

InFlight == {f \in DOMAIN stage : stage[f] \notin {"none", "done"}}

Changed == {f \in DOMAIN stage : f \in DOMAIN stage' /\ stage'[f] # stage[f]}

\* C1: while a run is active (the slot is set) no performSync call is made,
\* and every answer given to a start request is the 409 conflict; a call of
\* performSync is made only from the idle state, and it makes exactly one.
C1_SingleFlight ==
  [][/\ currentSync # NULL =>
          /\ runs' = runs
          /\ (response' # response => response' = "conflict")
     /\ runs' # runs =>
          /\ currentSync = NULL
          /\ runs' = runs + 1
          /\ response' = "started"]_vars

\* C1 witness: a request was answered 409 while the workers of a run were
\* in flight.
C1_Witness == currentSync # NULL /\ response = "conflict" /\ pc = "batch"

\* C2: a run is active exactly while its promise is pending; when it is
\* not, the slot is clear and the last run ended Completed or Failed, and a
\* start request is accepted again.
C2_RunEnds ==
  /\ (pc = "idle") <=> (currentSync = NULL)
  /\ (currentSync # NULL) <=> (outcome = "pending")
  /\ (currentSync = NULL /\ runs > 0 /\ esClient) =>
        outcome \in {"completed"} \cup FailedOutcomes
  /\ (currentSync = NULL /\ esClient /\ runs < MaxRuns) => ENABLED StartRun

\* C2 witness: a second run was accepted after the first one ended Failed.
C2_Witness ==
  /\ runs = 2 /\ currentSync # NULL
  /\ lastSyncResult # NULL /\ lastSyncResult.totalFiles = 0

\* C3: a failed call of one file leaves the run active and in its batch
\* phase, changes the stage of that file only, and a failed fetch or upsert
\* ends that file with one error counted and no indexed, updated or skipped
\* outcome (a failed existence check counts nothing and goes on to the
\* upsert); the batch phase is left only for the refresh, and at the refresh
\* and the checkpoint step every enumerated file has reached its outcome.
C3_FailureIsolated ==
  /\ [][faults' # faults =>
          /\ currentSync # NULL /\ currentSync' # NULL
          /\ outcome' = outcome
          /\ pc = "batch" /\ pc' \in {"batch", "delay", "refresh"}
          /\ Cardinality(Changed) = 1
          /\ \A f \in Changed :
               IF stage'[f] = "done"
               THEN currentSync'.errors = currentSync.errors + 1
               ELSE /\ stage[f] = "fetch" /\ stage'[f] = "indexNew"
                    /\ currentSync' = currentSync
          /\ currentSync'.indexed = currentSync.indexed
          /\ currentSync'.updated = currentSync.updated
          /\ currentSync'.skipped = currentSync.skipped]_vars
  /\ [][(pc = "batch" \/ pc = "delay") =>
          pc' \in {"batch", "delay", "refresh"}]_vars
  /\ [](pc \in {"refresh", "save"} =>
          /\ \A f \in 1..Len(ruleFiles) : stage[f] = "done"
          /\ currentSync.indexed + currentSync.updated + currentSync.skipped
               + currentSync.errors = currentSync.totalFiles)

\* C3 witness: a run with a failed file ended Completed.
C3_Witness ==
  pc = "idle" /\ outcome = "completed" /\ lastSyncResult.errors > 0

\* C4 (as claimed): a run that ended without a fatal error has processed
\* equal to the number of enumerated files.
C4_ProcessedAll ==
  (pc = "idle" /\ outcome = "completed") =>
     lastSyncResult.processed = lastSyncResult.totalFiles

\* C5: a run over N files dispatches ceil(N/5) batches, each batch but the
\* last of 5 files, and sets one pacing timer after every batch but the
\* last.
C5_BatchesAndDelays ==
  LET n == Len(ruleFiles)
      nb == (n + batchSize - 1) \div batchSize
      started == {f \in DOMAIN stage : stage[f] # "none"}
  IN /\ pc = "batch" =>
          /\ obs.batches <= nb
          /\ obs.delays = obs.batches - 1
          /\ started = 1..Min(obs.batches * batchSize, n)
     /\ pc = "delay" =>
          /\ obs.batches < nb
          /\ obs.delays = obs.batches
          /\ started = 1..(obs.batches * batchSize)
     /\ pc \in {"refresh", "save"} =>
          /\ obs.batches = nb
          /\ obs.delays = nb - 1
          /\ started = 1..n

\* C5 witness: a run of two batches, the second not full, with one delay.
C5_Witness ==
  /\ pc = "save"
  /\ obs.batches = 2 /\ obs.delays = 1
  /\ Len(ruleFiles) > batchSize /\ Len(ruleFiles) < 2 * batchSize

\* C6: during a run at most 5 workers are in flight, and a file is started
\* only when every file of the batches before its own is done and one
\* pacing timer per earlier batch has been set and has fired.
C6_BoundedSerialized ==
  pc # "idle" =>
    /\ Cardinality(InFlight) <= batchSize
    /\ \A f \in DOMAIN stage :
         stage[f] # "none" =>
           /\ \A g \in 1..(((f - 1) \div batchSize) * batchSize) :
                stage[g] = "done"
           /\ obs.delays >= (f - 1) \div batchSize
           /\ (pc = "delay" => f <= obs.delays * batchSize)

\* C6 witness: a file of the second batch is in flight.
C6_Witness ==
  pc = "batch" /\ i = batchSize /\ InFlight # {} /\ obs.delays = 1

\* C7 (as claimed): the checkpoint is written only after every batch has
\* finished and the refresh has answered, and every run that got that far
\* has persisted it.
C7_Original ==
  /\ [][checkpoint' # checkpoint =>
          /\ pc = "save" /\ obs.refreshed
          /\ i >= Len(ruleFiles)
          /\ \A f \in 1..Len(ruleFiles) : stage[f] = "done"]_vars
  /\ []((pc = "idle" /\ outcome = "completed") =>
          /\ checkpoint # NULL
          /\ checkpoint.lastSyncTime = runs)

\* C7 (amended): the checkpoint is written only after every batch has
\* finished and the refresh has answered; a run that got that far has
\* persisted its marker and time unless the write itself failed, whatever
\* the number of failed files.
C7_Amended ==
  /\ [][checkpoint' # checkpoint =>
          /\ pc = "save" /\ obs.refreshed
          /\ i >= Len(ruleFiles)
          /\ \A f \in 1..Len(ruleFiles) : stage[f] = "done"]_vars
  /\ []((pc = "idle" /\ outcome = "completed" /\ obs.save # "failed") =>
          checkpoint = [lastCommitSha |-> lastSyncResult.lastCommitSha,
                        lastSyncTime |-> runs])

\* C7 witness: a run with a failed file has persisted its checkpoint.
C7_Witness ==
  /\ pc = "idle" /\ outcome = "completed" /\ obs.save = "written"
  /\ lastSyncResult.errors > 0
  /\ checkpoint # NULL /\ checkpoint.lastSyncTime = runs

\* C8: when the enumeration answers with no file the run ends Failed in
\* that step: no worker was started, nothing was counted, and the store
\* and the checkpoint are as they were.
C8_ZeroFilesFatal ==
  [][(pc = "enumerate" /\ pc' # "enumerate" /\ ruleFiles' = <<>>) =>
       /\ outcome' = "zeroFiles"
       /\ currentSync' = NULL /\ pc' = "idle"
       /\ stage' = <<>>
       /\ lastSyncResult'.totalFiles = 0
       /\ lastSyncResult'.processed = 0
       /\ lastSyncResult'.errors = 0
       /\ store' = store
       /\ checkpoint' = checkpoint]_vars

\* C8 witness: a run failed on zero files and the checkpoint of an earlier
\* run is still the persisted one.
C8_Witness ==
  /\ outcome = "zeroFiles" /\ runs = 2
  /\ checkpoint # NULL /\ checkpoint.lastSyncTime = 1

\* C9 (as claimed): a run that follows a run completed with no error adds
\* no id to the store and classifies no file indexed: every upsert of it is
\* counted updated.
C9_Original ==
  /\ [][(currentSync # NULL /\ obs.prevClean) => store' = store]_vars
  /\ []((currentSync # NULL /\ obs.prevClean) => currentSync.indexed = 0)

\* C9 (amended): a run that follows a run completed with no error adds no
\* id to the store and classifies at most one file indexed per failed
\* existence check; with no failed call at all it classifies every file
\* updated or, rejected by the parser, skipped.
C9_Amended ==
  /\ [][(currentSync # NULL /\ obs.prevClean) => store' = store]_vars
  /\ []((currentSync # NULL /\ obs.prevClean) =>
          /\ currentSync.indexed <= obs.getFails
          /\ (pc \in {"refresh", "save"} /\ currentSync.errors = 0
                /\ obs.getFails = 0) =>
               /\ currentSync.indexed = 0
               /\ currentSync.updated + currentSync.skipped
                    = currentSync.totalFiles)

\* C9 witness: a second run over the same files classified files updated
\* and none indexed.
C9_Witness ==
  /\ pc = "save" /\ obs.prevClean
  /\ currentSync.updated > 1 /\ currentSync.indexed = 0
  /\ store # {}

\* C10: the step that answers a start request with the conflict changes
\* nothing of the active run: not its statistics, not its position, not
\* its workers, and it makes no performSync call.
C10_ConflictFrame ==
  [][(response' = "conflict" /\ response # "conflict") =>
       /\ currentSync # NULL
       /\ UNCHANGED <<currentSync, lastSyncResult, checkpoint, store, pc,
                      ruleFiles, i, stage, runs, outcome, faults, obs>>]_vars

\* C10 witness: a request was rejected while the active run had counted
\* outcomes.
C10_Witness ==
  /\ response = "conflict" /\ currentSync # NULL
  /\ currentSync.processed > 0 /\ currentSync.errors > 0

\* C11 (as claimed): a run for which ensuring the sync state index failed
\* leaves the schema step only by ending Failed.
C11_Original ==
  [][(pc = "ensureRules" /\ obs.stateIndexFailed /\ pc' # pc) =>
       (pc' = "idle" /\ outcome' = "schemaError")]_vars

\* C11 (amended): no answer to ensuring the sync state index ends the run,
\* a failure of it included; the run leaves the rules index step either for
\* the checkpoint load or, on a failure, by ending Failed with a snapshot
\* that counts no file, the store and the checkpoint as they were; and
\* during both steps no file is enumerated and no worker started.
C11_Amended ==
  /\ [][(pc = "ensureState" /\ pc' # pc) =>
          /\ pc' = "ensureRules"
          /\ currentSync' = currentSync /\ outcome' = outcome]_vars
  /\ [][(pc = "ensureRules" /\ pc' # pc) =>
          \/ pc' = "getState" /\ currentSync' = currentSync
               /\ outcome' = outcome
          \/ /\ pc' = "idle" /\ outcome' = "schemaError"
             /\ currentSync' = NULL
             /\ lastSyncResult' = [currentSync EXCEPT !.endTime = runs]
             /\ lastSyncResult'.totalFiles = 0
             /\ lastSyncResult'.processed = 0
             /\ store' = store /\ checkpoint' = checkpoint]_vars
  /\ [](pc \in {"ensureState", "ensureRules"} =>
          ruleFiles = <<>> /\ stage = <<>> /\ currentSync.totalFiles = 0)

\* C11 witness: the second run ended Failed on the rules index with the
\* documents of the first run still in the store.
C11_Witness ==
  /\ pc = "idle" /\ outcome = "schemaError" /\ runs = 2
  /\ lastSyncResult.totalFiles = 0 /\ store # {}

\* C13: the step that ends a file whose content was fetched and rejected by
\* the parser counts it skipped and processed and leaves errors, indexed
\* and updated as they were; and the errors of a run are exactly its failed
\* fetches and failed upserts, so rejections alone leave errors at zero.
C13_RejectionSkips ==
  /\ [][\A f \in Changed :
          (~ruleFiles[f].valid /\ stage[f] = "fetch" /\ faults' = faults) =>
             /\ stage'[f] = "done"
             /\ currentSync'.skipped = currentSync.skipped + 1
             /\ currentSync'.processed = currentSync.processed + 1
             /\ currentSync'.errors = currentSync.errors
             /\ currentSync'.indexed = currentSync.indexed
             /\ currentSync'.updated = currentSync.updated
             /\ store' = store]_vars
  /\ [](currentSync # NULL =>
          currentSync.errors = obs.fetchFails + obs.indexFails)

\* C13 witness: a run with several rejected files completed with no error.
C13_Witness ==
  /\ pc = "idle" /\ outcome = "completed"
  /\ lastSyncResult.skipped > 1 /\ lastSyncResult.errors = 0
  /\ lastSyncResult.indexed > 0

\* C14: the step in which the existence check of a present document fails
\* counts nothing and ends nothing: the run stays in its batch, the
\* statistics are as they were, and the one file it changes goes on to the
\* upsert with isUpdate false; the answered upsert of such a file stores the
\* document and counts the file indexed, not updated and not an error.
C14_ExistsFailureTolerated ==
  /\ [][obs'.getFails = obs.getFails + 1 =>
          /\ pc = "batch" /\ pc' = "batch"
          /\ currentSync' = currentSync /\ outcome' = outcome
          /\ store' = store
          /\ Cardinality(Changed) = 1
          /\ \A f \in Changed :
               /\ stage[f] = "fetch" /\ stage'[f] = "indexNew"
               /\ ruleFiles[f].name \in store]_vars
  /\ [][\A f \in Changed :
          (stage[f] = "indexNew" /\ faults' = faults) =>
             /\ stage'[f] = "done"
             /\ ruleFiles[f].name \in store'
             /\ currentSync'.indexed = currentSync.indexed + 1
             /\ currentSync'.updated = currentSync.updated
             /\ currentSync'.errors = currentSync.errors]_vars

\* C14 witness: in a run after a clean run, the existence check of a stored
\* document failed and the file was counted indexed, with no error.
C14_Witness ==
  /\ pc = "save" /\ obs.prevClean /\ obs.getFails = 1
  /\ currentSync.indexed = 1 /\ currentSync.errors = 0

\* C17 (as claimed): whenever the last performSync call rejected on a fatal
\* condition, the store not being configured included, the slot is clear
\* and the last-run result is the snapshot of that run, taken at its end.
C17_FatalRecorded ==
  (pc = "idle" /\ outcome \in FailedOutcomes \cup {"notConfigured"}) =>
     /\ currentSync = NULL
     /\ lastSyncResult # NULL
     /\ lastSyncResult.startTime = runs
     /\ lastSyncResult.endTime = runs

\* C18 (as claimed): after a run has ended Failed, GET /health answers the
\* status degraded whatever the store's ping answers, and the last-run
\* result answered by GET /api/sync/status carries a field beyond the
\* counters, the times and the marker of the statistics.
C18_DegradedAfterFailure ==
  (pc = "idle" /\ outcome \in FailedOutcomes) =>
     /\ \A pingOk \in BOOLEAN : Health(pingOk).status = "degraded"
     /\ DOMAIN SyncStatus(checkpoint).lastSync
          # DOMAIN [NewSyncStats EXCEPT !.endTime = runs]

\* C12: once the worker has parsed its file, it holds an entity if and only
\* if the line loop left a non-empty name and a non-empty query or a
\* non-empty machine learning job id; every entity has a non-empty name and
\* a non-empty query; a rejected file ends skipped with nothing upserted,
\* and the store never holds anything but the id of the entity.
C12_EntityIffValid ==
  rule # PENDING =>
    LET p == LineLoop(content, filename)
    IN /\ (rule # NULL) <=>
            /\ Truthy(p.rule.name)
            /\ Truthy(p.rule.query) \/ Truthy(p.machineLearningJobId)
       /\ rule # NULL => Truthy(rule.name) /\ Truthy(rule.query)
       /\ rule = NULL =>
            /\ stage = <<"done">> /\ store = {}
            /\ currentSync.skipped = 1 /\ currentSync.indexed = 0
       /\ store \subseteq (IF rule = NULL THEN {} ELSE {rule.id})

\* C12 witness: a file with a name and a query was parsed to an entity and
\* upserted.
C12_Witness ==
  /\ rule # PENDING /\ rule # NULL
  /\ rule.name = <<"n">> /\ rule.query = <<"q">>
  /\ store = {rule.id}

\* C19 (as claimed): the id of every entity is the file name without its
\* trailing '.toml'.
C19_IdIsStem ==
  (rule # PENDING /\ rule # NULL) =>
     rule.id = SubSeq(filename, 1, Len(filename) - 1)

IsPrefix(a, b) == Len(a) <= Len(b) /\ SubSeq(b, 1, Len(a)) = a

EnumDone == calling = NoCall /\ stack = <<>>

\* C15 (as claimed): the enumerator never holds more than 1000 files.
C15_Original == Length(allFiles) <= fileCap

\* C15 (amended): getContent is called for a subdirectory only while fewer
\* than 1000 files are collected, so from 1000 files on no further
\* directory is entered; the files of the listings already entered are
\* still collected, and no collected file is dropped.
C15_Amended ==
  /\ [][(calling' # NoCall /\ calling' # calling) =>
          Length(allFiles') < fileCap]_vars
  /\ []((calling # NoCall /\ calling # 0) => Length(allFiles) < fileCap)
  /\ [][IsPrefix(allFiles, allFiles')]_vars

\* C15 witness: an enumeration ended with more than 1000 files and with a
\* subdirectory of a listed directory that it never entered.
C15_Witness ==
  /\ EnumDone
  /\ Length(allFiles) > fileCap
  /\ \E d \in visited \ failed : \E k \in 1..Len(tree[d]) :
        tree[d][k].type = "dir" /\ tree[d][k].path \notin visited

\* What the traversal of tree t collects from item k of directory d on,
\* starting with files, when every listing answers.
RECURSIVE Collect(_, _, _, _)
Collect(t, d, k, files) ==
  IF k > Len(t[d]) THEN files
  ELSE IF t[d][k].type = "file"
  THEN Collect(t, d, k + 1, Append(files, t[d][k]))
  ELSE IF Length(files) < fileCap
  THEN Collect(t, d, k + 1, Collect(t, t[d][k].path, 1, files))
  ELSE Collect(t, d, k + 1, files)

\* The tree t with the directories of F empty.
Pruned(t, F) == [d \in DOMAIN t |-> IF d \in F THEN <<>> ELSE t[d]]

\* C16: the step in which a listing fails drops no collected file and
\* either calls getContent for a later directory or ends the enumeration;
\* and an enumeration that has ended returns what it would return from the
\* same tree with the failed directories empty: the files of everything
\* listed before and after them.
C16_FailureDropsSubtree ==
  /\ [][failed' # failed =>
          /\ IsPrefix(allFiles, allFiles')
          /\ calling' \notin failed'
          /\ (calling' = NoCall => stack' = <<>>)]_vars
  /\ [](EnumDone => allFiles = Collect(Pruned(tree, failed), 0, 1, <<>>))

\* C16 witness: an enumeration ended in which one listing failed and files
\* were collected both before and after the failed call.
C16_Witness ==
  /\ EnumDone /\ failed # {} /\ 0 \notin failed
  /\ Len(allFiles) = 2 /\ allFiles[1].dir = 0 /\ allFiles[2].dir = 0

\* C24: whatever the load of the checkpoint answers, and whether or not a
\* checkpoint is stored, the step leaves the run active with its statistics
\* as they were and goes on to the marker resolution; it counts no error
\* and changes neither the store nor the checkpoint.
C24_CheckpointLoadTolerated ==
  [][(pc = "getState" /\ pc' # pc) =>
       /\ pc' = "repoGet"
       /\ currentSync' = currentSync /\ currentSync # NULL
       /\ outcome' = outcome
       /\ store' = store /\ checkpoint' = checkpoint
       /\ lastSyncResult' = lastSyncResult]_vars

\* C24 witness: a run that found no checkpoint has indexed files and
\* reached the checkpoint write with no error.
C24_Witness ==
  /\ pc = "save" /\ checkpoint = NULL
  /\ currentSync.indexed > 0 /\ currentSync.errors = 0

\* C25 (as claimed): in a run without a failed call, the upsert of a file
\* is counted indexed only if no document with its id is in the store when
\* the upsert is answered.
C25_IndexedOnlyIfAbsent ==
  [][\A f \in Changed :
       (/\ stage[f] = "indexNew" /\ stage'[f] = "done"
        /\ obs.getFails = 0
        /\ currentSync'.indexed = currentSync.indexed + 1) =>
          ruleFiles[f].name \notin store]_vars

\* C26: during a run processed is indexed + updated + skipped + the failed
\* upserts and is at most totalFiles, and errors is the failed fetches plus
\* the failed upserts; a run that completed has one outcome per enumerated
\* file: indexed + updated + skipped + errors = totalFiles.
C26_OutcomeConservation ==
  /\ currentSync # NULL =>
       /\ currentSync.processed =
            currentSync.indexed + currentSync.updated + currentSync.skipped
              + obs.indexFails
       /\ currentSync.errors = obs.fetchFails + obs.indexFails
       /\ currentSync.processed <= currentSync.totalFiles
       /\ currentSync.processed + obs.fetchFails
            = Cardinality({f \in DOMAIN stage : stage[f] = "done"})
  /\ (pc = "idle" /\ outcome = "completed") =>
       /\ lastSyncResult.indexed + lastSyncResult.updated
            + lastSyncResult.skipped + lastSyncResult.errors
              = lastSyncResult.totalFiles
       /\ lastSyncResult.processed <= lastSyncResult.totalFiles

\* C26 witness: a run over two batches completed with every kind of
\* outcome but one.
C26_Witness ==
  /\ pc = "idle" /\ outcome = "completed"
  /\ lastSyncResult.totalFiles > batchSize
  /\ lastSyncResult.indexed > 0 /\ lastSyncResult.skipped > 0
  /\ lastSyncResult.errors > 0

\* C27 (as claimed): every started run eventually leaves Running, that is,
\* whenever the slot of the active run is taken it is eventually cleared.
C27_RunEnds == (currentSync # NULL) ~> (currentSync = NULL)

\* The line of lines that line k of the loop sees.
LineAt(lines, k) == Trim(lines[k])

\* Line k is of the form 'key = value' for the key.
HasKey(lines, k, key) ==
  LET line == LineAt(lines, k)
  IN Includes(line, EQ) /\ Trim(SubSeq(line, 1, IndexOf(line, EQ) - 1)) = key

\* C21 (as claimed): in an entity that parse returned, riskScore and
\* version are integers, riskScore is 0 if no line has the key risk_score
\* and version is 1 if no line has the key version.
C21_NumericDefaults ==
  (pc = "parsed" /\ rule # NULL) =>
    /\ rule.riskScore # undefinedNumber /\ rule.version # undefinedNumber
    /\ (\A k \in 1..Len(content) : ~HasKey(content, k, <<"risk_score">>))
         => rule.riskScore = Number(0)
    /\ (\A k \in 1..Len(content) : ~HasKey(content, k, <<"version">>))
         => rule.version = Number(1)

\* C29 (as claimed): a line read during a capture that is not the closing
\* line is appended to the buffer as it is, after a line feed, and leaves
\* the section as it was.
C29_CaptureVerbatim ==
  [][(/\ pc = "lines" /\ lineNo' = lineNo + 1
      /\ parser.inMultilineString
      /\ ~Includes(content[lineNo], TQ)) =>
        /\ parser'.multilineBuffer
             = parser.multilineBuffer \o <<NL>> \o content[lineNo]
        /\ parser'.inMetadataSection = parser.inMetadataSection
        /\ parser'.inRuleSection = parser.inRuleSection]_vars

\* Line k comes after a repeated-table marker with no '[metadata]' and no
\* '[rule]' between them.
AfterSubTable(lines, k) ==
  \E j \in 1..(k - 1) :
     /\ LineAt(lines, j) # <<>> /\ Head(LineAt(lines, j)) = "[[rule."
     /\ \A m \in (j + 1)..(k - 1) :
          LineAt(lines, m) \notin {<<"[metadata]">>, <<"[rule]">>}

\* C30 (as claimed): when a line with ' = ' is read after a repeated-table
\* marker and before the next section marker, the parser is in neither
\* section and the entity stays as it was.
C30_Original ==
  [][(/\ pc = "lines" /\ lineNo' = lineNo + 1
      /\ AfterSubTable(content, lineNo)
      /\ Includes(LineAt(content, lineNo), EQ)) =>
        /\ ~parser.inMetadataSection /\ ~parser.inRuleSection
        /\ parser'.rule = parser.rule]_vars

\* C30 (amended): the same for a line with ' = ' and without a triple
\* quote; a line with a triple quote that closes a capture commits the
\* buffer to the field of the capture in every section.
C30_Amended ==
  [][(/\ pc = "lines" /\ lineNo' = lineNo + 1
      /\ AfterSubTable(content, lineNo)
      /\ Includes(LineAt(content, lineNo), EQ)
      /\ ~Includes(LineAt(content, lineNo), TQ)) =>
        /\ ~parser.inMetadataSection /\ ~parser.inRuleSection
        /\ parser'.rule = parser.rule]_vars

\* C30 witness: the name of a sub-table was read outside a capture and
\* the entity was returned with the name of the rule.
C30_Witness ==
  /\ pc = "parsed" /\ rule # NULL /\ rule.name = <<"n">>
  /\ \E k \in 1..Len(content) :
        /\ AfterSubTable(content, k)
        /\ content[k] = <<"name", EQ, Q, "m", Q>>
        /\ ~ParseLines(NewParser(filename), content, 1).inMultilineString
        /\ \A j \in 1..k : ~Includes(content[j], TQ)

C23_DateNormalized ==
  /\ [][(pc = "normalize" /\ Shape(dateStr, "/")) =>
          /\ pc' = "returned" /\ Shape(date', "-")
          /\ \A k \in 1..10 : k \notin {5, 8} => date'[k] = dateStr[k]]_vars
  /\ [][(pc = "normalize" /\ Shape(dateStr, "-")) =>
          (pc' = "returned" /\ date' = dateStr)]_vars
  /\ [][(pc = "dateInvalid") => (pc' = "returned" /\ date' = undefined)]_vars
  /\ [](pc \in {"normalize", "dateValid", "dateInvalid"} => ENABLED NextDate)

\* C23 witness: a text of shape YYYY/MM/DD returned with '-' separators.
C23_Witness ==
  /\ pc = "returned"
  /\ Shape(dateStr, "/")
  /\ date = Dashed(dateStr) /\ date # dateStr

\* C28 (as claimed): the enumeration of every tree of listings, one with a
\* cycle included, ends: eventually no getContent call is awaited.
C28_EnumerationEnds == <>(calling = NoCall)

\* C32 (as claimed): the step that ends a run Completed leaves as the
\* checkpoint the marker this run resolved and the time of this run.
C32_Original ==
  [][(pc = "save" /\ pc' = "idle" /\ outcome' = "completed") =>
       checkpoint' = [lastCommitSha |-> RepoId(runs),
                      lastSyncTime |-> runs]]_vars

\* C32 (amended): the same for the step in which the write of the
\* checkpoint succeeded, where the marker is the one in the statistics of
\* the run; when the write failed the run ends Completed as well and the
\* checkpoint is the one that was persisted before.
C32_Amended ==
  [][(pc = "save" /\ pc' = "idle" /\ outcome' = "completed") =>
       /\ currentSync.lastCommitSha = RepoId(runs)
       /\ lastSyncResult'.lastCommitSha = RepoId(runs)
       /\ obs'.save = "written" =>
            checkpoint' = [lastCommitSha |-> RepoId(runs),
                           lastSyncTime |-> runs]
       /\ obs'.save # "written" => checkpoint' = checkpoint]_vars

\* C32 witness: the second run completed and replaced the marker and the
\* time the first run had persisted.
C32_Witness ==
  /\ pc = "idle" /\ outcome = "completed" /\ obs.save = "written"
  /\ runs = 2
  /\ checkpoint = [lastCommitSha |-> RepoId(2), lastSyncTime |-> 2]
  /\ RepoId(2) # RepoId(1)

\* C33: the checkpoint changes only in the step that ends a run Completed;
\* the step that ends a run otherwise leaves it as it was, so that after a
\* run that ended Failed the checkpoint is the one from before the run.
C33_FailedKeepsCheckpoint ==
  /\ [][checkpoint' # checkpoint =>
          (pc = "save" /\ pc' = "idle" /\ outcome' = "completed")]_vars
  /\ [][(currentSync # NULL /\ currentSync' = NULL
         /\ outcome' # "completed") => checkpoint' = checkpoint]_vars

\* C33 witness: the second run upserted documents and failed at the
\* refresh; the checkpoint is the one the first run persisted.
C33_Witness ==
  /\ pc = "idle" /\ outcome = "refreshError" /\ runs = 2
  /\ lastSyncResult.indexed + lastSyncResult.updated > 0
  /\ checkpoint = [lastCommitSha |-> RepoId(1), lastSyncTime |-> 1]

\* C34: the last-run result changes only in the step that ends a run, in
\* which it becomes the statistics of that run with the end time set and
\* the slot is cleared; every step that clears the slot takes it.
C34_SnapshotFrozen ==
  /\ [][lastSyncResult' # lastSyncResult =>
          (currentSync # NULL /\ currentSync' = NULL)]_vars
  /\ [][(currentSync # NULL /\ currentSync' = NULL) =>
          lastSyncResult' = [currentSync EXCEPT !.endTime = runs]]_vars

\* C34 witness: a later run has counted files of its own while the result
\* of the run before it is still the one recorded.
C34_Witness ==
  /\ runs = 2 /\ pc = "batch"
  /\ currentSync.processed > 0
  /\ lastSyncResult # NULL /\ lastSyncResult.endTime = 1
  /\ lastSyncResult.processed = 0

\* C35: the errors counter of the run in the slot changes only by one and
\* only in a step in which a fetch or an upsert of a file of that run
\* failed; the result recorded for a run that ended carries the errors the
\* run had counted, and a run starts with none.
C35_ErrorsOwnOutcomes ==
  /\ [][(currentSync # NULL /\ currentSync' # NULL
         /\ currentSync'.errors # currentSync.errors) =>
          /\ currentSync'.errors = currentSync.errors + 1
          /\ \E f \in Changed : stage'[f] = "done"
          /\ obs'.fetchFails + obs'.indexFails
               = obs.fetchFails + obs.indexFails + 1]_vars
  /\ [][(currentSync # NULL /\ currentSync' = NULL) =>
          lastSyncResult'.errors = currentSync.errors]_vars
  /\ [][(currentSync = NULL /\ currentSync' # NULL) =>
          currentSync'.errors = 0]_vars

\* C35 witness: a run failed on a fatal error, the next start request was
\* answered, and the new run has counted files and no error.
C35_Witness ==
  /\ runs = 2 /\ pc = "batch"
  /\ lastSyncResult # NULL /\ lastSyncResult.totalFiles = 0
  /\ lastSyncResult.errors = 0
  /\ currentSync.processed > 0 /\ currentSync.errors = 0

\* A pass of the line loop.
ReadsLine == pc = "lines" /\ lineNo' = lineNo + 1

\* The line is left by a continue before the triple quote is looked for:
\* blank, a comment, or a section marker.
Skipped(line) ==
  \/ line = <<>>
  \/ Head(line) \in {"#", "[[rule."}
  \/ line \in {<<"[metadata]">>, <<"[rule]">>}

\* From p to q the buffer of p, with the line less its first triple
\* quote, was committed trimmed to the field p remembered, and to none if
\* p remembered none.
Commits(p, q, line) ==
  LET text == Trim(p.multilineBuffer \o RemoveFirst(line, TQ))
  IN q.rule =
       IF p.currentSection = <<"query">>
       THEN [p.rule EXCEPT !.query = text]
       ELSE IF p.currentSection = <<"description">>
       THEN [p.rule EXCEPT !.description = text]
       ELSE IF p.currentSection = <<"note">>
       THEN [p.rule EXCEPT !.note = text]
       ELSE p.rule

\* C31 (as claimed): a line with a triple quote read during a capture
\* ends the capture, commits the trimmed buffer to the remembered field
\* and leaves the parser in neither section.
C31_Original ==
  [][(/\ ReadsLine /\ parser.inMultilineString
      /\ Includes(LineAt(content, lineNo), TQ)) =>
        /\ ~parser'.inMultilineString
        /\ Commits(parser, parser', LineAt(content, lineNo))
        /\ ~parser'.inMetadataSection /\ ~parser'.inRuleSection]_vars

\* C31 (amended): a line with a triple quote that is read during a
\* capture and is no comment and no section marker ends the capture,
\* commits the trimmed buffer to the remembered field and forgets the
\* field; the parser stays in the section it was in, which routes the
\* lines that follow.
C31_Amended ==
  [][(/\ ReadsLine /\ parser.inMultilineString
      /\ Includes(LineAt(content, lineNo), TQ)
      /\ ~Skipped(LineAt(content, lineNo))) =>
        /\ ~parser'.inMultilineString
        /\ parser'.multilineBuffer = <<>>
        /\ parser'.currentSection = <<>>
        /\ Commits(parser, parser', LineAt(content, lineNo))
        /\ parser'.inMetadataSection = parser.inMetadataSection
        /\ parser'.inRuleSection = parser.inRuleSection]_vars

\* C31 witness: a capture of the query was closed in the rule section and
\* the risk score of the line after it was assigned.
C31_Witness ==
  /\ pc = "lines" /\ lineNo = 7
  /\ SubSeq(content, 4, 6) = <<<<TQ>>, <<TQ>>, <<"risk_score", EQ, "73">>>>
  /\ parser.inRuleSection /\ ~parser.inMultilineString
  /\ parser.rule.query = <<>>
  /\ parser.rule.riskScore = Number(73)

\* The line holds key followed by ' ='.
HoldsKey(line, key) ==
  \E c \in 1..(Len(line) - 1) : line[c] = key /\ line[c + 1] = EQ

\* The field decided by the lines k - 2 and k - 1, those that exist.
Remembered(lines, k) ==
  LET prev == {lines[j] : j \in {k - 2, k - 1} \cap (1..Len(lines))}
  IN IF \E l \in prev : HoldsKey(l, "query") THEN <<"query">>
     ELSE IF \E l \in prev : HoldsKey(l, "description")
     THEN <<"description">>
     ELSE IF \E l \in prev : HoldsKey(l, "note") THEN <<"note">>
     ELSE <<>>

\* C36: a line that opens a capture leaves the entity as it was and
\* remembers the field that the two lines before it decide, none if they
\* name none; while no field is remembered no line of the capture, the
\* closing one included, changes the entity.
C36_RememberedField ==
  /\ [][(/\ ReadsLine /\ ~parser.inMultilineString
         /\ Includes(LineAt(content, lineNo), TQ)
         /\ ~Skipped(LineAt(content, lineNo))) =>
           /\ parser'.inMultilineString
           /\ parser'.currentSection = Remembered(content, lineNo)
           /\ parser'.rule = parser.rule]_vars
  /\ [][(/\ ReadsLine /\ parser.inMultilineString
         /\ parser.currentSection = <<>>) =>
           parser'.rule = parser.rule]_vars

\* C36 witness: a capture opened by the line 'query = """' right after
\* '[rule]' remembers no field while it takes the next line.
C36_Witness ==
  /\ pc = "lines" /\ lineNo = 4
  /\ content = <<<<"[rule]">>, <<"query", EQ, TQ>>, <<" ", "b">>>>
  /\ parser.inMultilineString /\ parser.currentSection = <<>>
  /\ parser.multilineBuffer = <<"query", EQ, NL, "b">>

\* The key of a 'key = value' line.
KeyOf(line) == Trim(SubSeq(line, 1, IndexOf(line, EQ) - 1))

\* The keys of the two switches that the model keeps.
MetadataKeys == {<<"maturity">>}
RuleKeys ==
  {<<"name">>, <<"description">>, <<"query">>, <<"type">>, <<"note">>,
   <<"risk_score">>, <<"version">>}

\* C37 (as claimed): a line with ' = ' and a rule key read outside the
\* rule section, or with a metadata key read outside the metadata
\* section, leaves the entity as it was.
C37_Original ==
  [][(/\ ReadsLine
      /\ ~Skipped(LineAt(content, lineNo))
      /\ Includes(LineAt(content, lineNo), EQ)
      /\ \/ /\ KeyOf(LineAt(content, lineNo)) \in RuleKeys
            /\ ~parser.inRuleSection
         \/ /\ KeyOf(LineAt(content, lineNo)) \in MetadataKeys
            /\ ~parser.inMetadataSection) =>
        parser'.rule = parser.rule]_vars

\* C37 (amended): the same for a line without a triple quote; such a line
\* with the key maturity read in the metadata section outside a capture
\* assigns the maturity and nothing else, and one with the key name read
\* in the rule section assigns the name and nothing else.  A line with a
\* triple quote that closes a capture commits the buffer in every section.
C37_Amended ==
  /\ [][(/\ ReadsLine
         /\ ~Skipped(LineAt(content, lineNo))
         /\ Includes(LineAt(content, lineNo), EQ)
         /\ ~Includes(LineAt(content, lineNo), TQ)
         /\ \/ /\ KeyOf(LineAt(content, lineNo)) \in RuleKeys
               /\ ~parser.inRuleSection
            \/ /\ KeyOf(LineAt(content, lineNo)) \in MetadataKeys
               /\ ~parser.inMetadataSection) =>
           parser'.rule = parser.rule]_vars
  /\ [][(/\ ReadsLine /\ ~parser.inMultilineString
         /\ LineAt(content, lineNo) = <<"maturity", EQ, Q, "p", Q>>
         /\ parser.inMetadataSection) =>
           parser'.rule = [parser.rule EXCEPT !.maturity = <<"p">>]]_vars
  /\ [][(/\ ReadsLine /\ ~parser.inMultilineString
         /\ LineAt(content, lineNo) = <<"name", EQ, Q, "m", Q>>
         /\ parser.inRuleSection) =>
           parser'.rule = [parser.rule EXCEPT !.name = <<"m">>]]_vars

\* C37 witness: the name was read in the metadata section and before any
\* marker and was not assigned, and the maturity was.
C37_Witness ==
  /\ pc = "lines" /\ lineNo = 4
  /\ content = <<<<"[metadata]">>, <<"name", EQ, Q, "m", Q>>,
                 <<"maturity", EQ, Q, "p", Q>>>>
  /\ parser.rule.name = undefined
  /\ parser.rule.maturity = <<"p">>

====
